---- MODULE Spec2Model ----
(***************************************************************************)
(* Model of the movie-dashboard data transformation pipeline               *)
(* (src/lib/transformations): monthly aggregation, percent change,         *)
(* rolling / exponential smoothing, top-N ranking, orchestration.          *)
(*                                                                         *)
(* Numbers.  Input popularity and vote_average are fixed-point integers in *)
(* thousandths (8547.326 is 8547326).  Every value the code produces with  *)
(* Math.round(x * 100) / 100 is an integer in hundredths.  Percentages are *)
(* in hundredths of a percent.  The smoothing factor alpha is in tenths.   *)
(* Math.round is computed on the exact quotient (round half up); the       *)
(* binary rounding error of IEEE 754 doubles is not modelled, and the      *)
(* input values are chosen so that no quotient is an exact tie.            *)
(*                                                                         *)
(* Objects.  MonthlyData objects live in `heap`; an array of MonthlyData   *)
(* is a sequence of heap references, so that `[...monthlyData]` (a new     *)
(* array of the same objects) and a field assignment through it are what   *)
(* they are in JavaScript.  An optional field that was never assigned is   *)
(* absent from the record's DOMAIN.                                        *)
(***************************************************************************)
EXTENDS Integers, Sequences, FiniteSets, TLC

VARIABLES
    movies,     \* the Movie[] handed to the pipeline
    genres,     \* the Genre[] handed to the pipeline
    tzOffset,   \* Date.prototype.getTimezoneOffset() of the runtime, minutes
    today,      \* new Date().toISOString().split('T')[0] at this moment
    heap,       \* MonthlyData objects, by reference
    series,     \* the MonthlyData[] the caller currently holds (references)
    last,       \* the last call: its name, arguments, heap before, result
    calls,      \* number of calls made so far
    cache,      \* MemoryCache.cache: Map from key to CacheEntry
    timers,     \* MemoryCache.timers: Map from key to the handle of its timer
    pending,    \* the timers of the runtime that are scheduled and not cleared
    clock,      \* Date.now(), in milliseconds
    written,    \* per key, the last set that no delete or clear has followed
    callers,    \* per cacheWithLoader call, where it stands
    loads       \* number of times the loader has been invoked

\* The state of the in-memory cache and of the calls of cacheWithLoader
cacheVars == <<cache, timers, pending, clock, written, callers, loads>>

\* The arguments and the series of the transformation pipeline
pipelineVars == <<movies, genres, tzOffset, today, heap, series>>

vars == <<movies, genres, tzOffset, today, heap, series, last, calls,
          cache, timers, pending, clock, written, callers, loads>>

-----------------------------------------------------------------------------
(* Bounds of the model *)

MaxMovies == 3
MaxCalls == 3

\* Runs of the orchestrator in a behaviour
MaxRuns == 2

\* The longest series handed to identifyTrends
MaxTrendLen == 3

\* The clock of the cache runs for this many seconds
MaxSeconds == 3

\* Concurrent calls of cacheWithLoader, and invocations of the loader in all
MaxCallers == 2
MaxLoads == 3

-----------------------------------------------------------------------------
(* `const x = v; return Body(x)`: Body applied to the value of v, which is
   evaluated once *)

Const(v, Body(_)) == CHOOSE r \in {Body(x) : x \in {v}} : TRUE

-----------------------------------------------------------------------------
(* JavaScript strings: code-unit order, number formatting and parsing *)

Digits == <<"0", "1", "2", "3", "4", "5", "6", "7", "8", "9">>

IsDigit(c) == \E i \in 1..10 : Digits[i] = c

DigitVal(c) == (CHOOSE i \in 1..10 : Digits[i] = c) - 1

\* UTF-16 code unit of the characters that occur in dates and month keys
CharCode(c) == IF c = "-" THEN 45 ELSE 48 + DigitVal(c)

CharAt(s, i) == SubSeq(s, i, i)

RECURSIVE StrCmpFrom(_, _, _)
StrCmpFrom(a, b, i) ==
    IF i > Len(a) /\ i > Len(b) THEN 0
    ELSE IF i > Len(a) THEN -1
    ELSE IF i > Len(b) THEN 1
    ELSE IF CharCode(CharAt(a, i)) < CharCode(CharAt(b, i)) THEN -1
    ELSE IF CharCode(CharAt(a, i)) > CharCode(CharAt(b, i)) THEN 1
    ELSE StrCmpFrom(a, b, i + 1)

\* a.localeCompare(b) and the relational operators on strings agree on
\* strings of digits and hyphens
StrCmp(a, b) == StrCmpFrom(a, b, 1)

StrLeq(a, b) == StrCmp(a, b) <= 0

StrLess(a, b) == StrCmp(a, b) < 0

AllDigits(s) == \A i \in 1..Len(s) : IsDigit(CharAt(s, i))

RECURSIVE ParseDigits(_, _)
ParseDigits(s, n) ==
    IF n = 0 THEN 0 ELSE 10 * ParseDigits(s, n - 1) + DigitVal(CharAt(s, n))

\* parseInt of a string of digits
ParseInt(s) == ParseDigits(s, Len(s))

RECURSIVE NumberToString(_)
NumberToString(n) ==
    IF n < 10 THEN Digits[n + 1]
    ELSE NumberToString(n \div 10) \o Digits[(n % 10) + 1]

RECURSIVE PadStart(_, _, _)
PadStart(s, n, c) == IF Len(s) >= n THEN s ELSE PadStart(c \o s, n, c)

\* s.substring(0, n)
Substring0(s, n) == SubSeq(s, 1, IF n < Len(s) THEN n ELSE Len(s))

RECURSIVE IndexOfFrom(_, _, _)
IndexOfFrom(s, c, i) ==
    IF i > Len(s) THEN 0
    ELSE IF CharAt(s, i) = c THEN i
    ELSE IndexOfFrom(s, c, i + 1)

\* s.split('-')[0] and s.split('-')[1] of a "year-month" key
SplitFirst(s) ==
    LET i == IndexOfFrom(s, "-", 1)
    IN  IF i = 0 THEN s ELSE SubSeq(s, 1, i - 1)

SplitSecond(s) ==
    LET i == IndexOfFrom(s, "-", 1)
        rest == SubSeq(s, i + 1, Len(s))
        j == IndexOfFrom(rest, "-", 1)
    IN  IF j = 0 THEN rest ELSE SubSeq(rest, 1, j - 1)

-----------------------------------------------------------------------------
(* JavaScript Date, for the date-only ISO forms YYYY, YYYY-MM, YYYY-MM-DD *)

DaysInMonth(y, m) ==
    IF m = 2 THEN (IF y % 4 = 0 /\ (y % 100 # 0 \/ y % 400 = 0) THEN 29 ELSE 28)
    ELSE IF m \in {4, 6, 9, 11} THEN 30 ELSE 31

\* Date.parse(s): the UTC calendar day a date-only form denotes, or NaN
DateParse(s) ==
    LET nan == [nan |-> TRUE, y |-> 0, m |-> 0, d |-> 0]
        wellFormed ==
            /\ Len(s) \in {4, 7, 10}
            /\ AllDigits(SubSeq(s, 1, 4))
            /\ Len(s) >= 7 => (CharAt(s, 5) = "-" /\ AllDigits(SubSeq(s, 6, 7)))
            /\ Len(s) = 10 => (CharAt(s, 8) = "-" /\ AllDigits(SubSeq(s, 9, 10)))
    IN  IF ~wellFormed THEN nan
        ELSE LET y == ParseInt(SubSeq(s, 1, 4))
                 m == IF Len(s) >= 7 THEN ParseInt(SubSeq(s, 6, 7)) ELSE 1
                 d == IF Len(s) = 10 THEN ParseInt(SubSeq(s, 9, 10)) ELSE 1
             IN  IF m \in 1..12 /\ d \in 1..DaysInMonth(y, m)
                 THEN [nan |-> FALSE, y |-> y, m |-> m, d |-> d]
                 ELSE nan

\* The local calendar day of `new Date(s)`: a date-only form is midnight UTC,
\* which west of Greenwich (getTimezoneOffset() > 0) is still the day before.
LocalDay(s, tz) ==
    Const(DateParse(s), LAMBDA u :
        IF tz <= 0 THEN u
        ELSE IF u.d > 1 THEN [u EXCEPT !.d = u.d - 1]
        ELSE IF u.m > 1
             THEN [u EXCEPT !.m = u.m - 1, !.d = DaysInMonth(u.y, u.m - 1)]
        ELSE [u EXCEPT !.y = u.y - 1, !.m = 12, !.d = 31])

\* releaseDate.getFullYear() and releaseDate.getMonth()
GetFullYear(s, tz) == LocalDay(s, tz).y

GetMonth(s, tz) == LocalDay(s, tz).m - 1

-----------------------------------------------------------------------------
(* JavaScript numbers in fixed point *)

\* Math.round(num / den) for den > 0: the nearest integer, halves upward
MathRound(num, den) == (2 * num + den) \div (2 * den)

RECURSIVE SumSeq(_)
SumSeq(s) == IF s = <<>> THEN 0 ELSE Head(s) + SumSeq(Tail(s))

\* Array.prototype.sort with a comparator, Before(a, b) <=> cmp(a, b) < 0.
\* The sort is stable: elements that compare equal keep their input order.
SortBy(arr, Before(_, _)) ==
    Const(arr, LAMBDA s :
        LET n == Len(s)
            Rank(i) == 1 + Cardinality({j \in 1..n :
                            \/ Before(s[j], s[i])
                            \/ (j < i /\ ~Before(s[i], s[j]))})
        IN  [k \in 1..n |-> s[CHOOSE i \in 1..n : Rank(i) = k]])

-----------------------------------------------------------------------------
(* Input data: Movie and Genre records (src/lib/types/tmdb.ts) *)

\* poster_path is `string | null`: null is the empty set, a string s is {s}
Null == {}

Truthy(s) == s # ""

TruthyOpt(p) == p # Null /\ p # {""}

Movie(id, title, poster, date, gids, pop, va, vc) ==
    [id |-> id, title |-> title, poster_path |-> poster, release_date |-> date,
     genre_ids |-> gids, popularity |-> pop, vote_average |-> va,
     vote_count |-> vc]

\* The movies the inputs are drawn from, in an order that is not
\* chronological.  Between them: a release date that is empty, shorter than
\* 10 characters, or 10 characters and unparseable; a first-of-month date;
\* two movies in one month; a popularity of zero, below half a hundredth, and
\* with three decimals; a missing title, a null poster, fewer than 100
\* votes; genre ids that are unknown, shared between movies, or absent.
MovieUniverse ==
    << Movie(4, "Delta",   Null,       "2023-03-10", <<35>>,     20000, 8000,  500),
       Movie(2, "Beta",    {"/b.jpg"}, "2023-02-01", <<28>>,        10,   10,  100),
       Movie(5, "Epsilon", {"/e.jpg"}, "",           <<28>>,     30000, 9000, 1000),
       Movie(1, "Alpha",   {"/a.jpg"}, "2023-01-15", <<28, 12>>,     0,    0,    0),
       Movie(7, "",        {""},       "2023-13-45", <<99>>,      5000, 5000,   99),
       Movie(3, "Gamma",   {"/c.jpg"}, "2023-02-20", <<12, 99>>, 10006, 7001,  250),
       Movie(6, "Zeta",    {"/f.jpg"}, "2023-03",    <<>>,           4, 7004,  150) >>

\* The subsets of 1..k with at most n elements
SmallSubsets(k, n) == {S \in SUBSET (1..k) : Cardinality(S) <= n}

\* The elements of S in increasing order
RECURSIVE Ascending(_)
Ascending(S) ==
    IF S = {} THEN <<>>
    ELSE LET m == CHOOSE x \in S : \A y \in S : x <= y
         IN  <<m>> \o Ascending(S \ {m})

\* The inputs: the sub-lists of MovieUniverse with at most MaxMovies movies
MovieLists ==
    {[i \in 1..Cardinality(S) |-> MovieUniverse[Ascending(S)[i]]] :
        S \in SmallSubsets(Len(MovieUniverse), MaxMovies)}

\* A movie as the catalog may deliver it: without its genre_ids property
WithoutGenreIds(movie) == [f \in DOMAIN movie \ {"genre_ids"} |-> movie[f]]

\* Movies with and without genre_ids: Gamma and Beta pass the ranking's
\* filter, Alpha does not
FailureUniverse ==
    << MovieUniverse[6],
       WithoutGenreIds(MovieUniverse[2]),
       MovieUniverse[1],
       WithoutGenreIds(MovieUniverse[4]),
       MovieUniverse[3] >>

FailureLists ==
    {[i \in 1..Cardinality(S) |-> FailureUniverse[Ascending(S)[i]]] :
        S \in SmallSubsets(Len(FailureUniverse), MaxMovies)}

Genre(id, name) == [id |-> id, name |-> name]

GenreSet == <<Genre(28, "Accion"), Genre(12, "Aventura"), Genre(35, "Comedia")>>

\* getTimezoneOffset(): Caracas (UTC-4) and UTC
TimezoneOffsets == {240, 0}

\* The days the clock passes through
Days == <<"2026-11-05", "2026-11-06">>

-----------------------------------------------------------------------------
(* TRANSFORMACION 1: aggregateByMonth (temporal-aggregation.ts) *)

\* Paso 1: the filter callback
HasValidDate(movie) ==
    /\ Truthy(movie.release_date)
    /\ Len(movie.release_date) >= 10
    /\ ~DateParse(movie.release_date).nan

\* Paso 2: the YYYY-MM key of a movie
MonthKey(movie, tz) ==
    LET year == GetFullYear(movie.release_date, tz)
        month == PadStart(NumberToString(GetMonth(movie.release_date, tz) + 1),
                          2, "0")
    IN  NumberToString(year) \o "-" \o month

\* The keys of the Map moviesByMonth, in insertion order
RECURSIVE MapKeys(_, _)
MapKeys(ms, tz) ==
    IF ms = <<>> THEN <<>>
    ELSE Const(MapKeys(SubSeq(ms, 1, Len(ms) - 1), tz), LAMBDA before :
         Const(MonthKey(ms[Len(ms)], tz), LAMBDA key :
             IF \E i \in 1..Len(before) : before[i] = key
             THEN before ELSE Append(before, key)))

MoviesInMonth(ms, key, tz) == SelectSeq(ms, LAMBDA m : MonthKey(m, tz) = key)

SumField(ms, f) == SumSeq([i \in 1..Len(ms) |-> ms[i][f]])

\* A faulty variant of Paso 3: the averages are cut, not rounded, to 2 decimals
MonthlyRecordTruncated(monthKey, group) ==
    [month |-> monthKey,
     year |-> ParseInt(SplitFirst(monthKey)),
     movies_count |-> Len(group),
     avg_popularity |-> SumField(group, "popularity") \div (10 * Len(group)),
     avg_vote_average |-> SumField(group, "vote_average") \div (10 * Len(group)),
     total_vote_count |-> SumField(group, "vote_count")]

\* Paso 3: the MonthlyData of one group
MonthlyRecord(monthKey, group) ==
    Const(group, LAMBDA moviesInMonth :
    LET totalMovies == Len(moviesInMonth)
    IN  [month |-> monthKey,
         year |-> ParseInt(SplitFirst(monthKey)),
         movies_count |-> totalMovies,
         avg_popularity |->
             MathRound(SumField(moviesInMonth, "popularity"), 10 * totalMovies),
         avg_vote_average |->
             MathRound(SumField(moviesInMonth, "vote_average"), 10 * totalMovies),
         total_vote_count |-> SumField(moviesInMonth, "vote_count")])

\* A faulty variant of Paso 4: the records stay in the Map's insertion order
SortByMonthOmitted(monthlyData) == monthlyData

\* Paso 4: monthlyData.sort((a, b) => a.month.localeCompare(b.month))
SortByMonth(monthlyData) ==
    SortBy(monthlyData, LAMBDA a, b : StrLess(a.month, b.month))

\* The MonthlyData values aggregateByMonth builds, as fresh objects
aggregateByMonth(ms, gs, tz) ==
    Const(SelectSeq(ms, HasValidDate), LAMBDA validMovies :
    Const(MapKeys(validMovies, tz), LAMBDA keys :
        SortByMonth([k \in 1..Len(keys) |->
            MonthlyRecord(keys[k], MoviesInMonth(validMovies, keys[k], tz))])))

-----------------------------------------------------------------------------
(* The heap of MonthlyData objects *)

Has(obj, f) == f \in DOMAIN obj

\* obj.f = v
SetField(obj, f, v) ==
    [g \in DOMAIN obj \cup {f} |-> IF g = f THEN v ELSE obj[g]]

\* New objects for the values `recs`, and the array that refers to them
Alloc(h, values) ==
    Const(values, LAMBDA recs :
        [heap |-> h \o recs, ret |-> [i \in 1..Len(recs) |-> Len(h) + i]])

\* The objects an array refers to
Deref(h, arr) == [i \in 1..Len(arr) |-> h[arr[i]]]

-----------------------------------------------------------------------------
(* filterByDateRange (temporal-aggregation.ts) *)

\* A faulty variant: the end month is excluded
filterByDateRangeBeforeEnd(h, monthlyData, startDate, endDate) ==
    LET start == Substring0(startDate, 7)
        end == Substring0(endDate, 7)
    IN  SelectSeq(monthlyData,
            LAMBDA ref : StrLeq(start, h[ref].month) /\ StrLess(h[ref].month, end))

filterByDateRange(h, monthlyData, startDate, endDate) ==
    LET start == Substring0(startDate, 7)
        end == Substring0(endDate, 7)
    IN  SelectSeq(monthlyData,
            LAMBDA ref : StrLeq(start, h[ref].month) /\ StrLeq(h[ref].month, end))

-----------------------------------------------------------------------------
(* TRANSFORMACION 2: percentage-change.ts *)

\* A JavaScript number that a division may have made non-finite
Finite(v) == [kind |-> "finite", v |-> v]

NaN == [kind |-> "NaN", v |-> 0]

Infinity(sign) == [kind |-> "Infinity", v |-> sign]

\* Math.round(((currentValue - previousValue) / previousValue) * 100 * 100) / 100
\* for previousValue >= 0, in hundredths of a percent; x / 0 as IEEE 754 has it
PercentOf(previousValue, currentValue) ==
    IF previousValue = 0
    THEN IF currentValue = 0 THEN NaN
         ELSE Infinity(IF currentValue > 0 THEN 1 ELSE -1)
    ELSE Finite(MathRound((currentValue - previousValue) * 100 * 100,
                          previousValue))

\* A faulty variant: the division without the guard on previousValue === 0
calculatePercentChangeUnguarded(previousValue, currentValue) ==
    PercentOf(previousValue, currentValue)

calculatePercentChange(previousValue, currentValue) ==
    IF previousValue = 0
    THEN IF currentValue = 0 THEN Finite(0) ELSE Finite(100 * 100)
    ELSE PercentOf(previousValue, currentValue)

\* A faulty variant of the loop body: the vote change is computed from the
\* popularity averages
PercentageChangeStepOneMetric(h, arr, i) ==
    LET current == h[arr[i]]
        previous == h[arr[i - 1]]
        change == calculatePercentChange(previous.avg_popularity,
                                         current.avg_popularity)
    IN  [h EXCEPT ![arr[i]] =
            SetField(SetField(current, "popularity_change_percent", change),
                     "vote_change_percent", change)]

\* The body of the loop, for the 1-based index i
PercentageChangeStep(h, arr, i) ==
    LET current == h[arr[i]]
        previous == h[arr[i - 1]]
        withPopularity ==
            SetField(current, "popularity_change_percent",
                calculatePercentChange(previous.avg_popularity,
                                       current.avg_popularity))
    IN  [h EXCEPT ![arr[i]] =
            SetField(withPopularity, "vote_change_percent",
                calculatePercentChange(previous.avg_vote_average,
                                       current.avg_vote_average))]

RECURSIVE PercentageChangeLoop(_, _, _)
PercentageChangeLoop(h, arr, i) ==
    IF i > Len(arr) THEN h
    ELSE Const(PercentageChangeStep(h, arr, i), LAMBDA next :
             PercentageChangeLoop(next, arr, i + 1))

\* The heap after the call and the array returned.  `[...monthlyData]` is a
\* new array of the same object references.
calculatePercentageChange(h, monthlyData) ==
    IF Len(monthlyData) < 2
    THEN [heap |-> h, ret |-> monthlyData]
    ELSE [heap |-> PercentageChangeLoop(h, monthlyData, 2), ret |-> monthlyData]

-----------------------------------------------------------------------------
(* TRANSFORMACION 3: rolling-window.ts *)

RollingStep(h, arr, i, windowSize) ==
    Const(Deref(h, SubSeq(arr, i - windowSize + 1, i)), LAMBDA window :
    LET popularitySum == SumField(window, "avg_popularity")
        voteSum == SumField(window, "avg_vote_average")
        withPopularity ==
            SetField(h[arr[i]], "popularity_moving_avg",
                     MathRound(popularitySum, windowSize))
    IN  [h EXCEPT ![arr[i]] =
            SetField(withPopularity, "vote_moving_avg",
                     MathRound(voteSum, windowSize))])

RECURSIVE RollingLoop(_, _, _, _)
RollingLoop(h, arr, i, windowSize) ==
    IF i > Len(arr) THEN h
    ELSE Const(RollingStep(h, arr, i, windowSize), LAMBDA next :
             RollingLoop(next, arr, i + 1, windowSize))

calculateRollingAverage(h, monthlyData, windowSize) ==
    IF windowSize < 1 \/ Len(monthlyData) < windowSize
    THEN [heap |-> h, ret |-> monthlyData]
    ELSE [heap |-> RollingLoop(h, monthlyData, windowSize, windowSize),
          ret |-> monthlyData]

\* obj.f || obj.g : an absent f (undefined) and f = 0 are both falsy
OrElse(obj, f, g) == IF Has(obj, f) /\ obj[f] # 0 THEN obj[f] ELSE obj[g]

\* Math.round((alpha * current + (1 - alpha) * previousEma) * 100) / 100,
\* alpha in tenths
EmaValue(alpha, current, previousEma) ==
    MathRound(alpha * current + (10 - alpha) * previousEma, 10)

EmaSeed(h, arr) ==
    [h EXCEPT ![arr[1]] =
        SetField(SetField(h[arr[1]], "popularity_moving_avg",
                          h[arr[1]].avg_popularity),
                 "vote_moving_avg", h[arr[1]].avg_vote_average)]

EmaStep(h, arr, i, alpha) ==
    LET current == h[arr[i]]
        previous == h[arr[i - 1]]
        withPopularity ==
            SetField(current, "popularity_moving_avg",
                EmaValue(alpha, current.avg_popularity,
                    OrElse(previous, "popularity_moving_avg", "avg_popularity")))
    IN  [h EXCEPT ![arr[i]] =
            SetField(withPopularity, "vote_moving_avg",
                EmaValue(alpha, current.avg_vote_average,
                    OrElse(previous, "vote_moving_avg", "avg_vote_average")))]

RECURSIVE EmaLoop(_, _, _, _)
EmaLoop(h, arr, i, alpha) ==
    IF i > Len(arr) THEN h
    ELSE Const(EmaStep(h, arr, i, alpha), LAMBDA next :
             EmaLoop(next, arr, i + 1, alpha))

calculateExponentialMovingAverage(h, monthlyData, alpha) ==
    IF alpha <= 0 \/ alpha > 10 \/ Len(monthlyData) = 0
    THEN [heap |-> h, ret |-> monthlyData]
    ELSE Const(EmaSeed(h, monthlyData), LAMBDA seeded :
             [heap |-> EmaLoop(seeded, monthlyData, 2, alpha),
              ret |-> monthlyData])

-----------------------------------------------------------------------------
(* TRANSFORMACION 4: top-movies.ts *)

\* A faulty variant of the filter callback: the release date is not looked at
HasCompleteDataAnyDate(movie) ==
    /\ Truthy(movie.title)
    /\ TruthyOpt(movie.poster_path)
    /\ movie.popularity > 0
    /\ movie.vote_count >= 100

\* Paso 1: the filter callback
HasCompleteData(movie) ==
    /\ Truthy(movie.title)
    /\ TruthyOpt(movie.poster_path)
    /\ Truthy(movie.release_date)
    /\ movie.popularity > 0
    /\ movie.vote_count >= 100

\* genres.find(g => g.id === genreId): the first genre with that id, if any
FindGenre(gs, genreId) ==
    Const(SelectSeq(gs, LAMBDA g : g.id = genreId), LAMBDA hits :
        IF hits = <<>> THEN {} ELSE {hits[1]})

RECURSIVE GenreNames(_, _)
GenreNames(genreIds, gs) ==
    IF genreIds = <<>> THEN <<>>
    ELSE Const(FindGenre(gs, Head(genreIds)), LAMBDA genre :
             IF genre = {} THEN GenreNames(Tail(genreIds), gs)
             ELSE <<(CHOOSE g \in genre : TRUE).name>>
                      \o GenreNames(Tail(genreIds), gs))

\* Math.round(x * 100) / 100 of a value in thousandths, in hundredths
Round2(thousandths) == MathRound(thousandths, 10)

enrichMovieWithGenres(movie, gs) ==
    [id |-> movie.id,
     title |-> movie.title,
     popularity |-> Round2(movie.popularity),
     vote_average |-> Round2(movie.vote_average),
     poster_path |-> movie.poster_path,
     genre_names |-> GenreNames(movie.genre_ids, gs),
     release_date |-> movie.release_date]

\* (popularity / 100) + (vote_average * 10), times 10000
CombinedScore(m) == m.popularity + 1000 * m.vote_average

\* A faulty variant: the vote_count case falls through to the vote_average case
sortMoviesByCriteriaFallThrough(ms, criteria) ==
    IF criteria \in {"vote_average", "vote_count"}
    THEN SortBy(ms, LAMBDA a, b : b.vote_average - a.vote_average < 0)
    ELSE IF criteria = "combined"
    THEN SortBy(ms, LAMBDA a, b : CombinedScore(b) - CombinedScore(a) < 0)
    ELSE SortBy(ms, LAMBDA a, b : b.popularity - a.popularity < 0)

sortMoviesByCriteria(ms, criteria) ==
    IF criteria = "vote_average"
    THEN SortBy(ms, LAMBDA a, b : b.vote_average - a.vote_average < 0)
    ELSE IF criteria = "combined"
    THEN SortBy(ms, LAMBDA a, b : CombinedScore(b) - CombinedScore(a) < 0)
    ELSE SortBy(ms, LAMBDA a, b : b.popularity - a.popularity < 0)

\* What enrichMovieWithGenres throws, if it does: `movie.genre_ids.map` on a
\* movie without genre_ids is a TypeError with this message
enrichMovieWithGenresError(movie) ==
    IF "genre_ids" \in DOMAIN movie THEN {}
    ELSE {"Cannot read properties of undefined (reading 'map')"}

\* What getTopMovies throws, if it does: the error of the first movie past the
\* filter on which enrichMovieWithGenres throws
getTopMoviesError(ms) ==
    Const(SelectSeq(SelectSeq(ms, HasCompleteData),
                    LAMBDA m : enrichMovieWithGenresError(m) # {}),
          LAMBDA throwing :
              IF throwing = <<>> THEN {}
              ELSE enrichMovieWithGenresError(throwing[1]))

\* arr.slice(0, n)
Slice0(arr, n) ==
    LET end == IF n < 0 THEN Len(arr) + n ELSE n
    IN  SubSeq(arr, 1, IF end > Len(arr) THEN Len(arr) ELSE end)

getTopMovies(ms, gs, criteria, topN) ==
    Const(SelectSeq(ms, HasCompleteData), LAMBDA validMovies :
    Const([i \in 1..Len(validMovies) |->
              enrichMovieWithGenres(validMovies[i], gs)], LAMBDA enrichedMovies :
    Const(sortMoviesByCriteria(enrichedMovies, criteria), LAMBDA sortedMovies :
        Slice0(sortedMovies, topN))))

-----------------------------------------------------------------------------
(* TRANSFORMACION 5: analyzeGenreDistribution (genre-analysis.ts) *)

\* A faulty variant: the accumulators kept in an array, one per element of
\* the genre list, instead of a Map keyed by genre id
GenreKeysPerElement(gs) == [i \in 1..Len(gs) |-> gs[i].id]

\* The keys of the Map genreStats, in insertion order
RECURSIVE GenreKeys(_)
GenreKeys(gs) ==
    IF gs = <<>> THEN <<>>
    ELSE Const(GenreKeys(SubSeq(gs, 1, Len(gs) - 1)), LAMBDA before :
         LET id == gs[Len(gs)].id
         IN  IF \E i \in 1..Len(before) : before[i] = id
             THEN before ELSE Append(before, id))

\* genreMap.get(genreId): the name set last for the id
GenreMapGet(gs, genreId) ==
    Const(SelectSeq(gs, LAMBDA g : g.id = genreId), LAMBDA hits :
        hits[Len(hits)].name)

\* A faulty variant: a movie that carries the genre adds one for each of its
\* genre ids
OccurrencesPerGenreId(movie, genreId) ==
    IF \E k \in 1..Len(movie.genre_ids) : movie.genre_ids[k] = genreId
    THEN Len(movie.genre_ids) ELSE 0

\* How many times the forEach over movie.genre_ids meets genreId; a movie
\* without genre_ids is skipped (`if (!movie.genre_ids || ...) return`)
Occurrences(movie, genreId) ==
    IF "genre_ids" \notin DOMAIN movie THEN 0 ELSE
    Cardinality({k \in 1..Len(movie.genre_ids) : movie.genre_ids[k] = genreId})

\* A faulty variant: `stats.count = 1` instead of `stats.count += 1`
GenreStatsCountSet(ms, genreId) ==
    [count |-> IF \E i \in 1..Len(ms) : Occurrences(ms[i], genreId) > 0
               THEN 1 ELSE 0,
     totalPopularity |->
         SumSeq([i \in 1..Len(ms) |->
                    Occurrences(ms[i], genreId) * ms[i].popularity]),
     totalVoteAverage |->
         SumSeq([i \in 1..Len(ms) |->
                    Occurrences(ms[i], genreId) * ms[i].vote_average])]

\* stats.count and the running totals after all movies
GenreStats(ms, genreId) ==
    [count |-> SumSeq([i \in 1..Len(ms) |-> Occurrences(ms[i], genreId)]),
     totalPopularity |->
         SumSeq([i \in 1..Len(ms) |->
                    Occurrences(ms[i], genreId) * ms[i].popularity]),
     totalVoteAverage |->
         SumSeq([i \in 1..Len(ms) |->
                    Occurrences(ms[i], genreId) * ms[i].vote_average])]

\* A faulty variant: the percentage taken of the movies that have genre data
GenreRecordOfMoviesWithGenres(ms, gs, genreId) ==
    Const(GenreStats(ms, genreId), LAMBDA stats :
    Const(GenreMapGet(gs, genreId), LAMBDA name :
        [genre_id |-> genreId,
         genre_name |-> IF Truthy(name) THEN name
                        ELSE "Genero " \o NumberToString(genreId),
         count |-> stats.count,
         percentage |->
             MathRound(stats.count * 10000,
                       Len(SelectSeq(ms, LAMBDA m : m.genre_ids # <<>>))),
         avg_popularity |-> MathRound(stats.totalPopularity, 10 * stats.count),
         avg_vote_average |-> MathRound(stats.totalVoteAverage, 10 * stats.count)]))

GenreRecord(ms, gs, genreId) ==
    Const(GenreStats(ms, genreId), LAMBDA stats :
    Const(GenreMapGet(gs, genreId), LAMBDA name :
        [genre_id |-> genreId,
         genre_name |-> IF Truthy(name) THEN name
                        ELSE "Genero " \o NumberToString(genreId),
         count |-> stats.count,
         percentage |-> MathRound(stats.count * 10000, Len(ms)),
         avg_popularity |-> MathRound(stats.totalPopularity, 10 * stats.count),
         avg_vote_average |-> MathRound(stats.totalVoteAverage, 10 * stats.count)]))

analyzeGenreDistribution(ms, gs) ==
    Const(SelectSeq(GenreKeys(gs),
              LAMBDA genreId : GenreStats(ms, genreId).count > 0), LAMBDA keys :
        SortBy([k \in 1..Len(keys) |-> GenreRecord(ms, gs, keys[k])],
               LAMBDA a, b : b.count - a.count < 0))

-----------------------------------------------------------------------------
(* INTEGRADOR: transformDashboardData (index.ts) *)

DashboardFilters(startDate, endDate, gids, sortBy, minVoteCount) ==
    [startDate |-> startDate, endDate |-> endDate, genres |-> gids,
     sortBy |-> sortBy, minVoteCount |-> minVoteCount]

\* movies.filter(m => m.release_date).map(m => m.release_date).sort()
SortedReleaseDates(ms) ==
    Const(SelectSeq(ms, LAMBDA m : Truthy(m.release_date)), LAMBDA withDate :
        SortBy([i \in 1..Len(withDate) |-> withDate[i].release_date], StrLess))

\* `now` is new Date().toISOString().split('T')[0]
getEarliestDate(ms, now) ==
    Const(SortedReleaseDates(ms), LAMBDA validDates :
        IF Len(validDates) > 0 THEN validDates[1] ELSE now)

\* .sort().reverse()[0] is the last of the sorted dates
getLatestDate(ms, now) ==
    Const(SortedReleaseDates(ms), LAMBDA validDates :
        IF Len(validDates) > 0 THEN validDates[Len(validDates)] ELSE now)

\* A faulty variant: the date-range filter runs after the change calculation
\* and the smoothing
MonthlyPipelineFilterLast(ms, gs, filters, tz) ==
    Const(Alloc(<<>>, aggregateByMonth(ms, gs, tz)), LAMBDA aggregated :
    Const(calculatePercentageChange(aggregated.heap, aggregated.ret), LAMBDA changed :
    Const(calculateRollingAverage(changed.heap, changed.ret, 3), LAMBDA smoothed :
        Deref(smoothed.heap,
              IF Truthy(filters.startDate) /\ Truthy(filters.endDate)
              THEN filterByDateRange(smoothed.heap, smoothed.ret,
                                     filters.startDate, filters.endDate)
              ELSE smoothed.ret))))

\* A faulty variant: the date-range filter runs when either date is given
MonthlyPipelineEitherDate(ms, gs, filters, tz) ==
    Const(Alloc(<<>>, aggregateByMonth(ms, gs, tz)), LAMBDA aggregated :
    Const(IF Truthy(filters.startDate) \/ Truthy(filters.endDate)
          THEN filterByDateRange(aggregated.heap, aggregated.ret,
                                 filters.startDate, filters.endDate)
          ELSE aggregated.ret, LAMBDA filtered :
    Const(calculatePercentageChange(aggregated.heap, filtered), LAMBDA changed :
    Const(calculateRollingAverage(changed.heap, changed.ret, 3), LAMBDA smoothed :
        Deref(smoothed.heap, smoothed.ret)))))

\* Transformaciones 1 to 3 on the objects aggregateByMonth has just built
MonthlyPipeline(ms, gs, filters, tz) ==
    Const(Alloc(<<>>, aggregateByMonth(ms, gs, tz)), LAMBDA aggregated :
    Const(IF Truthy(filters.startDate) /\ Truthy(filters.endDate)
          THEN filterByDateRange(aggregated.heap, aggregated.ret,
                                 filters.startDate, filters.endDate)
          ELSE aggregated.ret, LAMBDA filtered :
    Const(calculatePercentageChange(aggregated.heap, filtered), LAMBDA changed :
    Const(calculateRollingAverage(changed.heap, changed.ret, 3), LAMBDA smoothed :
        Deref(smoothed.heap, smoothed.ret)))))

\* A faulty variant of the catch block: the caught error's message is dropped
WrapErrorUnknown(message) == "Error transformando datos: Error desconocido"

\* catch (error): the message of the Error thrown in its place
WrapError(message) == "Error transformando datos: " \o message

\* A faulty variant: the ranking and the genre analysis run on the movies
\* with at least filters.minVoteCount votes
transformDashboardDataMinVotes(ms, gs, filters, tz, now) ==
    Const(SelectSeq(ms, LAMBDA m : m.vote_count >= filters.minVoteCount),
          LAMBDA voted :
    [monthly_data |-> MonthlyPipeline(ms, gs, filters, tz),
     top_movies |-> getTopMovies(voted, gs, "popularity", 10),
     genre_distribution |-> analyzeGenreDistribution(voted, gs),
     total_movies |-> Len(ms),
     date_range |->
         [start |-> IF Truthy(filters.startDate) THEN filters.startDate
                    ELSE getEarliestDate(ms, now),
          end |-> IF Truthy(filters.endDate) THEN filters.endDate
                  ELSE getLatestDate(ms, now)],
     filters_applied |-> filters])

\* The DashboardData returned, or [thrown |-> message] when a stage threw and
\* the catch block threw the wrapped Error.  Only the ranking can throw.
transformDashboardData(ms, gs, filters, tz, now) ==
    Const(getTopMoviesError(ms), LAMBDA error :
    IF error # {} THEN [thrown |-> WrapError(CHOOSE message \in error : TRUE)]
    ELSE
    [monthly_data |-> MonthlyPipeline(ms, gs, filters, tz),
     top_movies |-> getTopMovies(ms, gs, "popularity", 10),
     genre_distribution |-> analyzeGenreDistribution(ms, gs),
     total_movies |-> Len(ms),
     date_range |->
         [start |-> IF Truthy(filters.startDate) THEN filters.startDate
                    ELSE getEarliestDate(ms, now),
          end |-> IF Truthy(filters.endDate) THEN filters.endDate
                  ELSE getLatestDate(ms, now)],
     filters_applied |-> filters])

-----------------------------------------------------------------------------
(* The callers of the transformations *)

NoCall == [op |-> "none"]

\* new Map()
EmptyMap == [k \in {} |-> {}]

\* The cache module loaded and never called
CacheUnused ==
    /\ cache = EmptyMap
    /\ timers = EmptyMap
    /\ pending = {}
    /\ clock = 0
    /\ written = EmptyMap
    /\ callers = EmptyMap
    /\ loads = 0

InitInputs ==
    /\ movies \in MovieLists
    /\ tzOffset \in TimezoneOffsets
    /\ today = Days[1]
    /\ heap = <<>>
    /\ series = <<>>
    /\ last = NoCall
    /\ calls = 0
    /\ CacheUnused

Init ==
    /\ InitInputs
    /\ genres = GenreSet

\* const monthlyData = aggregateByMonth(movies, genres), the caller's first call
Aggregate ==
    /\ calls < MaxCalls
    /\ last = NoCall
    /\ \E a \in {Alloc(<<>>, aggregateByMonth(movies, genres, tzOffset))} :
           /\ heap' = a.heap
           /\ series' = a.ret
           /\ last' = [op |-> "aggregateByMonth", ret |-> a.ret]
    /\ calls' = calls + 1
    /\ UNCHANGED <<movies, genres, tzOffset, today>>
    /\ UNCHANGED cacheVars

\* The arguments the callers draw from
DateRanges == {<<"2023-01-01", "2023-02-28">>, <<"2023-02-01", "2023-12-31">>}

WindowSizes == {0, 1, 2, 3}

\* alpha in tenths: 0, 0.3, 1 and 1.2
Alphas == {0, 3, 10, 12}

\* A call on the series the caller got from aggregateByMonth, whose result
\* the caller keeps
Call(op, param, result) ==
    /\ calls < MaxCalls
    /\ last # NoCall
    /\ \E r \in {result} :
           /\ heap' = r.heap
           /\ series' = r.ret
           /\ last' = [op |-> op, param |-> param, arg |-> series,
                       pre |-> heap, ret |-> r.ret]
    /\ calls' = calls + 1
    /\ UNCHANGED <<movies, genres, tzOffset, today>>
    /\ UNCHANGED cacheVars

\* monthlyData = filterByDateRange(monthlyData, startDate, endDate)
FilterByDateRange(range) ==
    Call("filterByDateRange", range,
         [heap |-> heap,
          ret |-> filterByDateRange(heap, series, range[1], range[2])])

\* monthlyData = calculatePercentageChange(monthlyData)
PercentageChange ==
    Call("calculatePercentageChange", <<>>,
         calculatePercentageChange(heap, series))

\* monthlyData = calculateRollingAverage(monthlyData, windowSize)
RollingAverage(windowSize) ==
    Call("calculateRollingAverage", windowSize,
         calculateRollingAverage(heap, series, windowSize))

\* monthlyData = calculateExponentialMovingAverage(monthlyData, alpha)
ExponentialMovingAverage(alpha) ==
    Call("calculateExponentialMovingAverage", alpha,
         calculateExponentialMovingAverage(heap, series, alpha))

Next ==
    \/ Aggregate
    \/ \E range \in DateRanges : FilterByDateRange(range)
    \/ PercentageChange
    \/ \E windowSize \in WindowSizes : RollingAverage(windowSize)
    \/ \E alpha \in Alphas : ExponentialMovingAverage(alpha)

Spec == Init /\ [][Next]_vars

-----------------------------------------------------------------------------
(* The orchestrator's callers *)

FilterConfigs ==
    { DashboardFilters("", "", <<>>, "popularity.desc", 0),
      DashboardFilters("2023-01-01", "2023-02-28", <<28>>, "popularity.desc", 100),
      DashboardFilters("2023-02-01", "2023-12-31", <<>>, "vote_average.desc", 0),
      DashboardFilters("2023-02-01", "", <<>>, "popularity.desc", 0),
      DashboardFilters("", "2023-02-28", <<12>>, "release_date.asc", 500) }

\* Midnight UTC passes
Tick ==
    /\ \E d \in 1..(Len(Days) - 1) : today = Days[d] /\ today' = Days[d + 1]
    /\ UNCHANGED <<movies, genres, tzOffset, heap, series, last, calls>>
    /\ UNCHANGED cacheVars

\* A faulty variant: the ranking sorts the array it is given
InputsAfterTransformSortedInPlace(ms, gs) ==
    [movies |-> SortBy(ms, LAMBDA a, b : b.popularity - a.popularity < 0),
     genres |-> gs]

\* The caller's two arrays after transformDashboardData(movies, genres, ...),
\* returned or thrown. The in-place operations of the stages act on arrays
\* the stages built: `.sort` in sortMoviesByCriteria on the result of
\* validMovies.map (top-movies.ts:42-47), `.sort` and `.reverse` in
\* getEarliestDate / getLatestDate on the result of filter().map()
\* (index.ts:98-114), `.push` in aggregateByMonth on the arrays of its Map
\* (part_004:44-46); no stage assigns to a field of a movie or a genre.
InputsAfterTransform(ms, gs) == [movies |-> ms, genres |-> gs]

\* const dashboardData = transformDashboardData(movies, genres, filters)
Transform(filters) ==
    /\ calls < MaxRuns
    /\ \E result \in {transformDashboardData(movies, genres, filters,
                                              tzOffset, today)} :
           last' = IF "thrown" \in DOMAIN result
                   THEN [op |-> "transformDashboardData", param |-> filters,
                         thrown |-> result.thrown]
                   ELSE [op |-> "transformDashboardData", param |-> filters,
                         ret |-> result]
    /\ \E after \in {InputsAfterTransform(movies, genres)} :
           movies' = after.movies /\ genres' = after.genres
    /\ calls' = calls + 1
    /\ UNCHANGED <<tzOffset, today, heap, series>>
    /\ UNCHANGED cacheVars

InitPipeline ==
    /\ InitInputs
    /\ genres = GenreSet

NextPipeline ==
    \/ Aggregate
    \/ \E filters \in FilterConfigs : Transform(filters)
    \/ Tick

SpecPipeline == InitPipeline /\ [][NextPipeline]_vars

-----------------------------------------------------------------------------
(* The orchestrator called on movies some of which lack genre_ids *)

InitFailure ==
    /\ movies \in FailureLists
    /\ genres = GenreSet
    /\ tzOffset = 0
    /\ today = Days[1]
    /\ heap = <<>>
    /\ series = <<>>
    /\ last = NoCall
    /\ calls = 0
    /\ CacheUnused

NextFailure == \E filters \in FilterConfigs : Transform(filters)

SpecFailure == InitFailure /\ [][NextFailure]_vars

-----------------------------------------------------------------------------
(* getTopMovies called on its own *)

GenreLists == {<<>>, GenreSet, <<Genre(12, "Aventura"), Genre(12, "Adventure")>>}

Criteria == {"popularity", "vote_average", "vote_count", "combined"}

TopNs == {0, 1, 2, 10}

InitTop ==
    /\ movies \in MovieLists
    /\ genres \in GenreLists
    /\ tzOffset = 0
    /\ today = Days[1]
    /\ heap = <<>>
    /\ series = <<>>
    /\ last = NoCall
    /\ calls = 0
    /\ CacheUnused

\* const topMovies = getTopMovies(movies, genres, criteria, topN)
TopMovies(criteria, topN) ==
    /\ last' = [op |-> "getTopMovies", criteria |-> criteria, topN |-> topN,
                ret |-> getTopMovies(movies, genres, criteria, topN)]
    /\ UNCHANGED <<movies, genres, tzOffset, today, heap, series, calls>>
    /\ UNCHANGED cacheVars

\* const genreDistribution = analyzeGenreDistribution(movies, genres)
GenreDistribution ==
    /\ last' = [op |-> "analyzeGenreDistribution",
                ret |-> analyzeGenreDistribution(movies, genres)]
    /\ UNCHANGED <<movies, genres, tzOffset, today, heap, series, calls>>
    /\ UNCHANGED cacheVars

NextTop ==
    \/ \E criteria \in Criteria, topN \in TopNs : TopMovies(criteria, topN)
    \/ GenreDistribution

SpecTop == InitTop /\ [][NextTop]_vars

-----------------------------------------------------------------------------
(* calculatePercentChange called on its own *)

\* Values in hundredths: 0, 0.01, 0.03, 0.07, 50, 80, 85, 92, 100, 123.45, 200
SampleValues == {0, 1, 3, 7, 5000, 8000, 8500, 9200, 10000, 12345, 20000}

InitPercent ==
    /\ movies = <<>>
    /\ genres = GenreSet
    /\ tzOffset = 0
    /\ today = Days[1]
    /\ heap = <<>>
    /\ series = <<>>
    /\ last = NoCall
    /\ calls = 0
    /\ CacheUnused

\* const change = calculatePercentChange(previousValue, currentValue)
PercentChange(previousValue, currentValue) ==
    /\ last' = [op |-> "calculatePercentChange",
                previousValue |-> previousValue, currentValue |-> currentValue,
                ret |-> calculatePercentChange(previousValue, currentValue)]
    /\ UNCHANGED <<movies, genres, tzOffset, today, heap, series, calls>>
    /\ UNCHANGED cacheVars

NextPercent ==
    \E previousValue \in SampleValues, currentValue \in SampleValues :
        PercentChange(previousValue, currentValue)

SpecPercent == InitPercent /\ [][NextPercent]_vars

-----------------------------------------------------------------------------
(* Properties of the stages *)

BaseFields == {"month", "year", "movies_count", "avg_popularity",
               "avg_vote_average", "total_vote_count"}

ChangeFields == {"popularity_change_percent", "vote_change_percent"}

MovingAvgFields == {"popularity_moving_avg", "vote_moving_avg"}

\* The objects of arr are as aggregateByMonth builds them
Fresh(h, arr) == \A i \in 1..Len(arr) : DOMAIN h[arr[i]] = BaseFields

\* Every object the argument of the last call refers to is as it was
ArgumentUntouched ==
    \A i \in 1..Len(last.arg) : heap[last.arg[i]] = last.pre[last.arg[i]]

\* C1: calculatePercentageChange does not mutate its input: after a call on
\* a series of length >= 2 every input record has exactly the fields and
\* values it had before the call.
C1_PercentageChangeLeavesInput ==
    (last.op = "calculatePercentageChange" /\ Len(last.arg) >= 2)
        => ArgumentUntouched

\* C2: neither calculateRollingAverage nor calculateExponentialMovingAverage
\* mutates its input: after the call every input record has exactly the
\* fields and values it had before.
C2_SmoothingLeavesInput ==
    last.op \in {"calculateRollingAverage", "calculateExponentialMovingAverage"}
        => ArgumentUntouched

\* C3: transformDashboardData is referentially transparent: two invocations
\* with identical movies, genres and filters, made at any two points in time,
\* return deep-equal aggregates.  Movies and genres never change in a
\* behaviour, so the invocations compared are two successive ones with the same
\* filters, whatever time passed between them.
C3_TransformIsReferentiallyTransparent ==
    [][(/\ last.op = "transformDashboardData"
        /\ last'.op = "transformDashboardData"
        /\ last'.param = last.param) => last'.ret = last.ret]_vars

StrictlyIncreasingByMonth(monthlyData) ==
    \A i \in 1..(Len(monthlyData) - 1) :
        /\ monthlyData[i].month # monthlyData[i + 1].month
        /\ StrLess(monthlyData[i].month, monthlyData[i + 1].month)

\* C4: for every movie list, the output of aggregateByMonth, and the
\* monthly_data of transformDashboardData after date-range filtering and
\* stages 2 and 3, is strictly increasing by month key: no two records share
\* a month key and each key is lexically greater than the one before it.
C4_MonthKeysStrictlyIncreasing ==
    /\ last.op = "aggregateByMonth" =>
          StrictlyIncreasingByMonth(Deref(heap, last.ret))
    /\ last.op = "transformDashboardData" =>
          StrictlyIncreasingByMonth(last.ret.monthly_data)

\* C4 witness: the orchestrator ran with a date range on movies given out of
\* chronological order, and two months or more are left after the filter
C4_Witness ==
    /\ last.op = "transformDashboardData"
    /\ Truthy(last.param.startDate) /\ Truthy(last.param.endDate)
    /\ Len(last.ret.monthly_data) >= 2
    /\ \E i, j \in 1..Len(movies) :
          /\ i < j
          /\ HasValidDate(movies[i]) /\ HasValidDate(movies[j])
          /\ StrLess(MonthKey(movies[j], tzOffset), MonthKey(movies[i], tzOffset))

\* The aggregation as specified: the movies that remain, and the
\* month of a release date as written
Remaining(ms) ==
    SelectSeq(ms, LAMBDA m : /\ m.release_date # ""
                             /\ Len(m.release_date) >= 10
                             /\ ~DateParse(m.release_date).nan)

ReleaseMonth(m) == SubSeq(m.release_date, 1, 7)

GroupOf(ms, month) == SelectSeq(Remaining(ms), LAMBDA m : ReleaseMonth(m) = month)

\* twice the distance of `hundredths` from num / den (in hundredths) is at
\* most one: `hundredths` is num / den rounded to 2 decimals
IsRounded2(hundredths, num, den) ==
    /\ 2 * hundredths * den <= 200 * num + den
    /\ 200 * num + den < 2 * (hundredths + 1) * den

\* C5: aggregateByMonth excludes every movie whose release date is missing,
\* shorter than 10 characters or unparseable, and groups each remaining
\* movie into the YYYY-MM month of its release date: one record per distinct
\* month, movies_count summing to the number of remaining movies,
\* total_vote_count the exact sum, both averages the group's means rounded to
\* 2 decimals, and an empty output for an empty input.
C5_AggregateGroupsByReleaseMonth ==
    last.op = "aggregateByMonth" =>
        LET out == Deref(heap, last.ret)
            months == {ReleaseMonth(Remaining(movies)[i]) :
                          i \in 1..Len(Remaining(movies))}
        IN  /\ {out[i].month : i \in 1..Len(out)} = months
            /\ Len(out) = Cardinality(months)
            /\ SumField(out, "movies_count") = Len(Remaining(movies))
            /\ \A i \in 1..Len(out) :
                 LET group == GroupOf(movies, out[i].month)
                 IN  /\ out[i].movies_count = Len(group)
                     /\ out[i].total_vote_count = SumField(group, "vote_count")
                     /\ Len(group) > 0 =>
                          /\ IsRounded2(out[i].avg_popularity,
                                 SumField(group, "popularity"), 1000 * Len(group))
                          /\ IsRounded2(out[i].avg_vote_average,
                                 SumField(group, "vote_average"), 1000 * Len(group))
            /\ movies = <<>> => out = <<>>

\* The same, in a runtime whose local time is UTC or east of it
C5_HoldsAtUtc == tzOffset <= 0 => C5_AggregateGroupsByReleaseMonth

\* C6: on a series as aggregateByMonth produced it (optionally filtered by
\* date range), calculatePercentageChange returns a series of the same
\* length; record 0 carries neither change field; record i >= 1 carries
\* calculatePercentChange of the two records' avg_popularity and, separately,
\* of their avg_vote_average; all prior fields are preserved; a series of
\* length < 2 is returned unchanged.
C6_PercentageChangeResult ==
    (last.op = "calculatePercentageChange" /\ Fresh(last.pre, last.arg)) =>
        LET before == Deref(last.pre, last.arg)
            after == Deref(heap, last.ret)
            n == Len(before)
        IN  /\ Len(after) = n
            /\ n < 2 => (last.ret = last.arg /\ after = before)
            /\ n >= 1 => DOMAIN after[1] = BaseFields
            /\ \A i \in 2..n :
                 /\ DOMAIN after[i] = BaseFields \cup ChangeFields
                 /\ after[i].popularity_change_percent =
                        calculatePercentChange(before[i - 1].avg_popularity,
                                               before[i].avg_popularity)
                 /\ after[i].vote_change_percent =
                        calculatePercentChange(before[i - 1].avg_vote_average,
                                               before[i].avg_vote_average)
            /\ \A i \in 1..n : \A f \in BaseFields : after[i][f] = before[i][f]

\* C6 witness: a call on a fresh, filtered series of two months or more whose
\* two changes differ
C6_Witness ==
    /\ last.op = "calculatePercentageChange"
    /\ Fresh(last.pre, last.arg)
    /\ Len(last.arg) >= 2
    /\ Len(last.arg) < Len(heap)
    /\ heap[last.ret[2]].popularity_change_percent #
           heap[last.ret[2]].vote_change_percent

\* C7: calculatePercentChange never yields NaN or an infinite value; for
\* previous = 0 it returns 0 when current = 0 and 100 otherwise; for
\* previous # 0 it returns ((current - previous) / previous) * 100 rounded to
\* 2 decimals; (0,0) gives 0, (0,50) gives 100, (80,92) gives 15.00 and
\* (100,85) gives -15.00.
C7_PercentChangeValue ==
    last.op = "calculatePercentChange" =>
        LET p == last.previousValue
            c == last.currentValue
            r == last.ret
        IN  /\ r.kind = "finite"
            /\ p = 0 => r.v = (IF c = 0 THEN 0 ELSE 10000)
            /\ p # 0 => IsRounded2(r.v, (c - p) * 100, p)
            /\ (p = 0 /\ c = 5000) => r.v = 10000
            /\ (p = 8000 /\ c = 9200) => r.v = 1500
            /\ (p = 10000 /\ c = 8500) => r.v = -1500

\* C7 witness: both branches have been taken: the call (0, 50) or (80, 92)
C7_Witness ==
    /\ last.op = "calculatePercentChange"
    /\ \/ (last.previousValue = 0 /\ last.currentValue = 5000)
       \/ (last.previousValue = 8000 /\ last.currentValue = 9200
              /\ last.ret = Finite(1500))

\* C8: for every window W >= 1, also when the series was passed to another
\* smoothing call before, the result of calculateRollingAverage(series, W)
\* has at every index i >= W-1 both moving averages equal to the mean of the
\* W raw values at i-W+1..i rounded to 2 decimals, has no moving-average
\* field at any index i < W-1, and is the input unchanged when the series is
\* shorter than W.
C8_RollingAverageResult ==
    (last.op = "calculateRollingAverage" /\ last.param >= 1) =>
        LET before == Deref(last.pre, last.arg)
            after == Deref(heap, last.ret)
            n == Len(before)
            W == last.param
        IN  /\ Len(after) = n
            /\ n < W => (last.ret = last.arg /\ after = before)
            /\ n >= W =>
                 /\ \A i \in W..n :
                      LET window == SubSeq(before, i - W + 1, i)
                      IN  /\ Has(after[i], "popularity_moving_avg")
                          /\ Has(after[i], "vote_moving_avg")
                          /\ IsRounded2(after[i].popularity_moving_avg,
                                 SumField(window, "avg_popularity"), 100 * W)
                          /\ IsRounded2(after[i].vote_moving_avg,
                                 SumField(window, "avg_vote_average"), 100 * W)
                 /\ \A i \in 1..(W - 1) :
                      DOMAIN after[i] \cap MovingAvgFields = {}

\* C9: for 0 < alpha <= 1 and a non-empty series, EMA[0] is the raw value of
\* record 0 and EMA[i] = alpha*raw[i] + (1-alpha)*EMA[i-1] rounded to 2
\* decimals, EMA[i-1] being the value this call stored at index i-1, for
\* popularity and vote average independently; for alpha <= 0 or alpha > 1
\* the input is returned unchanged.
C9_ExponentialMovingAverageResult ==
    last.op = "calculateExponentialMovingAverage" =>
        LET before == Deref(last.pre, last.arg)
            after == Deref(heap, last.ret)
            n == Len(before)
            alpha == last.param
        IN  IF alpha <= 0 \/ alpha > 10
            THEN last.ret = last.arg /\ after = before
            ELSE /\ Len(after) = n
                 /\ n >= 1 =>
                      /\ after[1].popularity_moving_avg = before[1].avg_popularity
                      /\ after[1].vote_moving_avg = before[1].avg_vote_average
                 /\ \A i \in 2..n :
                      /\ IsRounded2(after[i].popularity_moving_avg,
                             alpha * before[i].avg_popularity
                               + (10 - alpha) * after[i - 1].popularity_moving_avg,
                             1000)
                      /\ IsRounded2(after[i].vote_moving_avg,
                             alpha * before[i].avg_vote_average
                               + (10 - alpha) * after[i - 1].vote_moving_avg,
                             1000)

\* The minimum-data filter as specified
PassesMinimumData(m) ==
    /\ m.title # ""
    /\ m.poster_path # Null
    /\ m.release_date # ""
    /\ m.popularity > 0
    /\ m.vote_count >= 100

\* C10: for every movie list, genre list, criterion and N >= 0, getTopMovies
\* returns at most N records and at most as many records as there are movies
\* passing the minimum-data filter, and every returned record has a non-empty
\* title, a non-null poster, popularity > 0 and comes from a movie with
\* vote_count >= 100.
C10_TopMoviesBoundedAndComplete ==
    last.op = "getTopMovies" =>
        LET out == last.ret
        IN  /\ Len(out) <= last.topN
            /\ Len(out) <= Len(SelectSeq(movies, PassesMinimumData))
            /\ \A i \in 1..Len(out) :
                 /\ out[i].title # ""
                 /\ out[i].poster_path # Null
                 /\ out[i].popularity > 0
                 /\ \E j \in 1..Len(movies) :
                      /\ movies[j].id = out[i].id
                      /\ movies[j].vote_count >= 100

\* The score of a movie or of a returned record under a criterion; `combined`
\* is popularity / 100 + vote_average * 10, scaled to an integer
CriterionScore(m, criteria) ==
    IF criteria = "popularity" THEN m.popularity
    ELSE IF criteria = "vote_average" THEN m.vote_average
    ELSE m.popularity + 1000 * m.vote_average

\* The input movie a returned record was built from
SourceMovie(ms, record) == ms[CHOOSE j \in 1..Len(ms) : ms[j].id = record.id]

\* C11: for each criterion in {popularity, vote_average, combined},
\* getTopMovies returns the first N of the eligible movies sorted descending
\* by that criterion: along the output the criterion score is non-increasing,
\* and no eligible movie left out of the output has a strictly higher score,
\* computed from its input popularity and vote average, than a movie that is
\* returned.
C11_TopMoviesSortedByCriterion ==
    (last.op = "getTopMovies"
        /\ last.criteria \in {"popularity", "vote_average", "combined"}) =>
        LET out == last.ret
            returned == {out[i].id : i \in 1..Len(out)}
        IN  /\ \A i \in 1..(Len(out) - 1) :
                 CriterionScore(out[i], last.criteria)
                     >= CriterionScore(out[i + 1], last.criteria)
            /\ \A j \in 1..Len(movies) :
                 (PassesMinimumData(movies[j]) /\ movies[j].id \notin returned)
                     => \A i \in 1..Len(out) :
                          CriterionScore(movies[j], last.criteria)
                              <= CriterionScore(SourceMovie(movies, out[i]),
                                                last.criteria)

\* The ids a movie carries, and the movies that carry a genre id
GenreIdsOf(movie) == {movie.genre_ids[k] : k \in 1..Len(movie.genre_ids)}

Carrying(ms, genreId) == SelectSeq(ms, LAMBDA m : genreId \in GenreIdsOf(m))

KnownGenreIds(gs) == {gs[i].id : i \in 1..Len(gs)}

\* C12: analyzeGenreDistribution emits exactly one record per genre of the
\* input genre set that is carried by at least one movie: every output record
\* has count > 0, no two output records share a genre_id, a genre with zero
\* matching movies never appears, and a genre id that occurs on movies but is
\* not in the genre set never appears.
C12_OneRecordPerCarriedGenre ==
    last.op = "analyzeGenreDistribution" =>
        LET out == last.ret
            carried == {id \in KnownGenreIds(genres) :
                            Carrying(movies, id) # <<>>}
        IN  /\ {out[i].genre_id : i \in 1..Len(out)} = carried
            /\ Len(out) = Cardinality(carried)
            /\ \A i \in 1..Len(out) : out[i].count > 0
            /\ \A i, j \in 1..Len(out) :
                 i # j => out[i].genre_id # out[j].genre_id

\* C12 witness: a movie carries an id outside the genre set, a genre of the
\* set is carried by no movie, and the distribution is not empty
C12_Witness ==
    /\ last.op = "analyzeGenreDistribution"
    /\ last.ret # <<>>
    /\ \E i \in 1..Len(movies) : GenreIdsOf(movies[i]) \ KnownGenreIds(genres) # {}
    /\ \E id \in KnownGenreIds(genres) : Carrying(movies, id) = <<>>

\* C13: for every movie list in which every movie has at least one genre id,
\* and every genre list, the sum of count over the records returned by
\* analyzeGenreDistribution is at least the number of input movies.
C13_CountSumCoversMovies ==
    (last.op = "analyzeGenreDistribution"
        /\ \A i \in 1..Len(movies) : movies[i].genre_ids # <<>>)
        => SumField(last.ret, "count") >= Len(movies)

\* C13 as it holds: the same, for every movie list in which every movie has
\* at least one genre id that is in the genre list.
C13_CountSumCoversMoviesOfKnownGenres ==
    (last.op = "analyzeGenreDistribution"
        /\ \A i \in 1..Len(movies) :
              GenreIdsOf(movies[i]) \cap KnownGenreIds(genres) # {})
        => SumField(last.ret, "count") >= Len(movies)

\* C13 witness: two movies or more, each with a known genre, one of them with
\* two known genres, so that the sum exceeds the number of movies
C13_Witness ==
    /\ last.op = "analyzeGenreDistribution"
    /\ Len(movies) >= 2
    /\ \A i \in 1..Len(movies) :
          GenreIdsOf(movies[i]) \cap KnownGenreIds(genres) # {}
    /\ SumField(last.ret, "count") > Len(movies)

\* C14: in every record returned by analyzeGenreDistribution, percentage is
\* count / (length of the input movie list, movies without genre ids
\* included) * 100 rounded to 2 decimals, avg_popularity and avg_vote_average
\* are the sums over the movies carrying the genre divided by count and
\* rounded to 2 decimals, and the records are ordered by count descending.
C14_GenreRecordValues ==
    last.op = "analyzeGenreDistribution" =>
        LET out == last.ret
        IN  /\ \A i \in 1..Len(out) :
                 LET group == Carrying(movies, out[i].genre_id)
                 IN  /\ IsRounded2(out[i].percentage,
                                   100 * out[i].count, Len(movies))
                     /\ IsRounded2(out[i].avg_popularity,
                            SumField(group, "popularity"), 1000 * out[i].count)
                     /\ IsRounded2(out[i].avg_vote_average,
                            SumField(group, "vote_average"), 1000 * out[i].count)
            /\ \A i \in 1..(Len(out) - 1) : out[i].count >= out[i + 1].count

\* C14 witness: a movie without genre ids is in the list, and two genres with
\* different counts are reported
C14_Witness ==
    /\ last.op = "analyzeGenreDistribution"
    /\ \E i \in 1..Len(movies) : movies[i].genre_ids = <<>>
    /\ Len(last.ret) >= 2
    /\ last.ret[1].count > last.ret[Len(last.ret)].count

\* C15: in every record returned by analyzeGenreDistribution, count equals
\* the number of input movies carrying that genre, so count never exceeds the
\* number of input movies and percentage lies between 0 and 100.  (The genre
\* ids of a movie are a set: no id occurs twice on one movie.)
C15_CountIsMoviesCarryingGenre ==
    last.op = "analyzeGenreDistribution" =>
        \A i \in 1..Len(last.ret) :
            /\ last.ret[i].count = Len(Carrying(movies, last.ret[i].genre_id))
            /\ last.ret[i].count <= Len(movies)
            /\ last.ret[i].percentage >= 0
            /\ last.ret[i].percentage <= 100 * 100

\* C15 witness: a genre carried by every movie of a list of two or more, one
\* of which carries a second genre
C15_Witness ==
    /\ last.op = "analyzeGenreDistribution"
    /\ Len(movies) >= 2
    /\ \E i \in 1..Len(last.ret) :
          /\ last.ret[i].count = Len(movies)
          /\ last.ret[i].percentage = 100 * 100
    /\ \E i \in 1..Len(movies) : Len(movies[i].genre_ids) >= 2

\* A movie with a title, a poster, popularity > 0 and vote_count >= 100
RankableButForDate(m) ==
    /\ m.title # ""
    /\ m.poster_path # Null
    /\ m.popularity > 0
    /\ m.vote_count >= 100

\* What C16 says of a run of transformDashboardData apart from top_movies:
\* the movies without release date are in no month, all movies are counted,
\* and a movie without release date adds to each of its known genres
UndatedMoviesOutsideTopMovies ==
    LET ret == last.ret
        dated == SelectSeq(movies, LAMBDA m : m.release_date # "")
    IN  /\ SumField(ret.monthly_data, "movies_count") <= Len(dated)
        /\ (dated = <<>>) => (ret.monthly_data = <<>>)
        /\ ret.total_movies = Len(movies)
        /\ \A j \in 1..Len(movies) :
             movies[j].release_date = "" =>
                 \A id \in GenreIdsOf(movies[j]) \cap KnownGenreIds(genres) :
                     \E i \in 1..Len(ret.genre_distribution) :
                         /\ ret.genre_distribution[i].genre_id = id
                         /\ ret.genre_distribution[i].count =
                                Len(Carrying(movies, id))

TopMovieIds == {last.ret.top_movies[i].id : i \in 1..Len(last.ret.top_movies)}

\* C16: in transformDashboardData, a movie whose release_date is the empty
\* string is excluded from monthly_data, is still counted in total_movies,
\* and is still eligible for top_movies and for genre_distribution: with a
\* title, a poster, popularity > 0 and vote_count >= 100 it competes for the
\* top 10 like any other movie (so it is returned when 10 movies or fewer
\* compete), and it adds to the count of each of its known genres.
C16_UndatedMovieStaysEligible ==
    last.op = "transformDashboardData" =>
        /\ UndatedMoviesOutsideTopMovies
        /\ Len(SelectSeq(movies, RankableButForDate)) <= 10 =>
              \A j \in 1..Len(movies) :
                  (movies[j].release_date = "" /\ RankableButForDate(movies[j]))
                      => movies[j].id \in TopMovieIds

\* C16 as it holds: such a movie is excluded from monthly_data, counted in
\* total_movies, adds to the count of each of its known genres, and is never
\* in top_movies, whose filter asks for a non-empty release date.
C16_UndatedMovieOnlyInGenresAndTotal ==
    last.op = "transformDashboardData" =>
        /\ UndatedMoviesOutsideTopMovies
        /\ \A j \in 1..Len(movies) :
              movies[j].release_date = "" => movies[j].id \notin TopMovieIds

\* C16 witness: a run on a movie without release date that has a title, a
\* poster, popularity > 0, 100 votes and a known genre, next to a dated movie
\* that is ranked
C16_Witness ==
    /\ last.op = "transformDashboardData"
    /\ \E j \in 1..Len(movies) :
          /\ movies[j].release_date = ""
          /\ RankableButForDate(movies[j])
          /\ GenreIdsOf(movies[j]) \cap KnownGenreIds(genres) # {}
    /\ last.ret.top_movies # <<>>
    /\ last.ret.monthly_data # <<>>

\* C17: the top_movies, genre_distribution and total_movies of
\* transformDashboardData depend only on the movies and genres: a run that
\* follows another run on the same movies and genres, with whatever two filter
\* configurations, gives equal top_movies (the Top-N by popularity with
\* N = 10), equal genre_distribution and equal total_movies (the number of
\* input movies).
C17_FiltersLeaveRankingAndGenres ==
    [][(last.op = "transformDashboardData"
            /\ last'.op = "transformDashboardData") =>
        /\ last'.ret.top_movies = last.ret.top_movies
        /\ last'.ret.genre_distribution = last.ret.genre_distribution
        /\ last'.ret.total_movies = last.ret.total_movies
        /\ last'.ret.total_movies = Len(movies)
        /\ last'.ret.top_movies = getTopMovies(movies, genres, "popularity", 10)
      ]_vars

\* C17 witness: the second of two runs of the orchestrator (no aggregateByMonth
\* call came first: the caller holds no series), with a date range that left
\* out a month and a vote floor above some movie's votes, while top_movies and
\* genre_distribution are not empty
C17_Witness ==
    /\ last.op = "transformDashboardData"
    /\ calls = 2
    /\ heap = <<>>
    /\ Truthy(last.param.startDate) /\ Truthy(last.param.endDate)
    /\ \E j \in 1..Len(movies) :
          /\ HasValidDate(movies[j])
          /\ \A i \in 1..Len(last.ret.monthly_data) :
                last.ret.monthly_data[i].month # MonthKey(movies[j], tzOffset)
    /\ \E j \in 1..Len(movies) : movies[j].vote_count < last.param.minVoteCount
    /\ last.ret.top_movies # <<>>
    /\ last.ret.genre_distribution # <<>>

\* m is in the inclusive range of the two dates truncated to YYYY-MM, under
\* string comparison
InMonthRange(m, startDate, endDate) ==
    /\ StrCmp(SubSeq(startDate, 1, 7), m) <= 0
    /\ StrCmp(m, SubSeq(endDate, 1, 7)) <= 0

\* C18: when the filter carries both a start date and an end date, the
\* monthly_data of transformDashboardData contains exactly the months m
\* produced by the aggregator with startDate[0..7) <= m <= endDate[0..7) under
\* string comparison, both bounds inclusive, in their original order; no
\* record is added, merged or reordered.
C18_MonthlyDataIsTheRangeOfMonths ==
    (last.op = "transformDashboardData"
        /\ last.param.startDate # "" /\ last.param.endDate # "") =>
        LET produced == aggregateByMonth(movies, genres, tzOffset)
            expected == SelectSeq(produced,
                            LAMBDA r : InMonthRange(r.month, last.param.startDate,
                                                    last.param.endDate))
            out == last.ret.monthly_data
        IN  /\ Len(out) = Len(expected)
            /\ \A i \in 1..Len(out) :
                 \A f \in BaseFields : out[i][f] = expected[i][f]

\* C18 witness: a run with both dates in which the range left out a month
\* that has movies and kept two
C18_Witness ==
    /\ last.op = "transformDashboardData"
    /\ last.param.startDate # "" /\ last.param.endDate # ""
    /\ Len(last.ret.monthly_data) >= 2
    /\ Len(last.ret.monthly_data)
           < Len(aggregateByMonth(movies, genres, tzOffset))

\* The release dates of the input that parse as dates, and the calendar day
\* of one as a number
ParsedDates(ms) ==
    {ms[j].release_date : j \in {k \in 1..Len(ms) :
        ms[k].release_date # "" /\ ~DateParse(ms[k].release_date).nan}}

DayNumber(s) ==
    LET u == DateParse(s) IN (u.y * 12 + (u.m - 1)) * 31 + (u.d - 1)

\* C19: the date_range of transformDashboardData has start = filters.startDate
\* when it is given and otherwise the earliest parsed (valid) release date
\* among the input movies, and end = filters.endDate when it is given and
\* otherwise the latest parsed (valid) release date among the input movies;
\* malformed release dates do not determine either bound.
C19_DateRangeFromFiltersOrValidDates ==
    last.op = "transformDashboardData" =>
        LET range == last.ret.date_range
            valid == ParsedDates(movies)
        IN  /\ last.param.startDate # "" => range.start = last.param.startDate
            /\ last.param.endDate # "" => range.end = last.param.endDate
            /\ (last.param.startDate = "" /\ valid # {}) =>
                  /\ range.start \in valid
                  /\ \A d \in valid : DayNumber(range.start) <= DayNumber(d)
            /\ (last.param.endDate = "" /\ valid # {}) =>
                  /\ range.end \in valid
                  /\ \A d \in valid : DayNumber(d) <= DayNumber(range.end)

DashboardDataFields == {"monthly_data", "top_movies", "genre_distribution",
                        "total_movies", "date_range", "filters_applied"}

\* C20: if a stage throws during transformDashboardData (the ranking, on a
\* movie past its filter that has no genre_ids), the call ends by throwing one
\* wrapped Error whose message is the fixed prefix followed by the original
\* error's message, and no aggregate, complete or partial, is returned; if no
\* stage throws, a complete aggregate with all six fields is returned.
C20_FailureIsWrappedOnce ==
    last.op = "transformDashboardData" =>
        IF \E j \in 1..Len(movies) :
               PassesMinimumData(movies[j]) /\ "genre_ids" \notin DOMAIN movies[j]
        THEN /\ DOMAIN last = {"op", "param", "thrown"}
             /\ last.thrown = "Error transformando datos: "
                    \o "Cannot read properties of undefined (reading 'map')"
        ELSE /\ DOMAIN last = {"op", "param", "ret"}
             /\ DOMAIN last.ret = DashboardDataFields

\* C20 witness: the call threw although the monthly stages had months to
\* report and another movie could be ranked
C20_Witness ==
    /\ last.op = "transformDashboardData"
    /\ "thrown" \in DOMAIN last
    /\ \E j \in 1..Len(movies) : HasValidDate(movies[j])
    /\ \E j \in 1..Len(movies) :
          PassesMinimumData(movies[j]) /\ "genre_ids" \in DOMAIN movies[j]


\* C21: on movies whose only defects are a bad or missing release date,
\* unknown genre ids, or an absent or empty genre-id list,
\* transformDashboardData returns an aggregate and never throws.
C21_AnomaliesAreAbsorbed ==
    last.op = "transformDashboardData" =>
        /\ "thrown" \notin DOMAIN last
        /\ "ret" \in DOMAIN last


-----------------------------------------------------------------------------
(* validateDashboardData (index.ts), called on aggregates of every shape *)

\* !arr || arr.length === 0 on an optional array field of data
MissingOrEmpty(data, field) ==
    field \notin DOMAIN data \/ Len(data[field]) = 0

\* monthly_data.every((curr, index) => index === 0 || curr.month >= prev.month)
isOrdered(monthly_data) ==
    \A index \in 1..Len(monthly_data) :
        \/ index = 1
        \/ StrLeq(monthly_data[index - 1].month, monthly_data[index].month)

\* genre_distribution.reduce((sum, genre) => sum + genre.percentage, 0),
\* in hundredths of a percent
totalPercentage(genre_distribution) ==
    SumSeq([i \in 1..Len(genre_distribution) |-> genre_distribution[i].percentage])

\* n.toFixed(2) of a number given in hundredths
ToFixed2(hundredths) ==
    NumberToString(hundredths \div 100) \o "."
        \o PadStart(NumberToString(hundredths % 100), 2, "0")

MonthlyDataErrors(data) ==
    IF MissingOrEmpty(data, "monthly_data")
    THEN <<"No hay datos mensuales disponibles">>
    ELSE <<>>

DateRangeErrorsOnEqual(data) ==
    IF StrLeq(data.date_range.end, data.date_range.start)
    THEN <<"El rango de fechas es inválido (inicio > fin)">>
    ELSE <<>>

\* data.date_range.start > data.date_range.end, on strings
DateRangeErrors(data) ==
    IF StrLess(data.date_range.end, data.date_range.start)
    THEN <<"El rango de fechas es inválido (inicio > fin)">>
    ELSE <<>>

MonthlyDataWarnings(data) ==
    IF ~MissingOrEmpty(data, "monthly_data") /\ ~isOrdered(data.monthly_data)
    THEN <<"Los datos mensuales no están ordenados cronológicamente">>
    ELSE <<>>

TopMoviesWarnings(data) ==
    IF MissingOrEmpty(data, "top_movies")
    THEN <<"No hay top películas disponibles">>
    ELSE <<>>

PercentageWarning(total) ==
    "Los porcentajes de géneros no suman 100% (actual: " \o ToFixed2(total) \o "%)"

\* Math.abs(totalPercentage - 100) > 5
GenreWarnings(data) ==
    IF MissingOrEmpty(data, "genre_distribution")
    THEN <<"No hay distribución de géneros disponible">>
    ELSE LET total == totalPercentage(data.genre_distribution)
             distance == IF total >= 10000 THEN total - 10000 ELSE 10000 - total
         IN  IF distance > 500 THEN <<PercentageWarning(total)>> ELSE <<>>

validateDashboardData(data) ==
    LET errors == MonthlyDataErrors(data) \o DateRangeErrors(data)
        warnings == MonthlyDataWarnings(data) \o TopMoviesWarnings(data)
                        \o GenreWarnings(data)
    IN  [isValid |-> Len(errors) = 0, errors |-> errors, warnings |-> warnings]

\* The aggregates validated: every combination of the parts below
SampleMonth(monthKey) ==
    [month |-> monthKey, year |-> ParseInt(SplitFirst(monthKey)),
     movies_count |-> 1, avg_popularity |-> 1000, avg_vote_average |-> 700,
     total_vote_count |-> 100]

SampleMonthlyData ==
    { <<>>,
      <<SampleMonth("2023-01")>>,
      <<SampleMonth("2023-01"), SampleMonth("2023-02")>>,
      <<SampleMonth("2023-02"), SampleMonth("2023-02")>>,
      <<SampleMonth("2023-02"), SampleMonth("2023-01")>>,
      <<SampleMonth("2022-12"), SampleMonth("2023-01"), SampleMonth("2022-11")>> }

SampleTopMovies ==
    { <<>>, <<enrichMovieWithGenres(MovieUniverse[6], GenreSet)>> }

SampleGenre(genre, percentage) ==
    [genre_id |-> genre.id, genre_name |-> genre.name, count |-> 1,
     percentage |-> percentage, avg_popularity |-> 1000,
     avg_vote_average |-> 700]

SampleGenreDistributions ==
    { <<>>,
      <<SampleGenre(GenreSet[1], 10000)>>,
      <<SampleGenre(GenreSet[1], 6667), SampleGenre(GenreSet[2], 3333)>>,
      <<SampleGenre(GenreSet[1], 6000), SampleGenre(GenreSet[2], 3500)>>,
      <<SampleGenre(GenreSet[1], 6000), SampleGenre(GenreSet[2], 3499)>>,
      <<SampleGenre(GenreSet[1], 10000), SampleGenre(GenreSet[2], 500)>>,
      <<SampleGenre(GenreSet[1], 10000), SampleGenre(GenreSet[2], 501)>>,
      <<SampleGenre(GenreSet[1], 10000), SampleGenre(GenreSet[2], 10000)>>,
      <<SampleGenre(GenreSet[3], 3333)>> }

SampleDateRanges ==
    { [start |-> "2023-01-15", end |-> "2023-03-10"],
      [start |-> "2023-02-01", end |-> "2023-02-01"],
      [start |-> "2023-02-01", end |-> "2023-01-31"],
      [start |-> "2023-03-01", end |-> "2023-02-28"] }

\* Aggregates with all their fields, and aggregates whose optional array
\* fields are absent
SampleDashboardData ==
    { [monthly_data |-> m, top_movies |-> t, genre_distribution |-> g,
       total_movies |-> Len(t), date_range |-> r,
       filters_applied |-> DashboardFilters("", "", <<>>, "popularity.desc", 0)] :
          m \in SampleMonthlyData, t \in SampleTopMovies,
          g \in SampleGenreDistributions, r \in SampleDateRanges }
    \cup
    { [f \in DashboardDataFields \ absent |-> d[f]] :
          absent \in {{"monthly_data"}, {"top_movies"}, {"genre_distribution"}},
          d \in { [monthly_data |-> <<SampleMonth("2023-01")>>,
                   top_movies |-> <<>>,
                   genre_distribution |-> <<SampleGenre(GenreSet[1], 10000)>>,
                   total_movies |-> 1, date_range |-> r,
                   filters_applied |->
                       DashboardFilters("", "", <<>>, "popularity.desc", 0)] :
                      r \in SampleDateRanges } }

InitValidate ==
    /\ movies = <<>>
    /\ genres = GenreSet
    /\ tzOffset = 0
    /\ today = Days[1]
    /\ heap = <<>>
    /\ series = <<>>
    /\ last = NoCall
    /\ calls = 0
    /\ CacheUnused

Validate(data) ==
    /\ last' = [op |-> "validateDashboardData", arg |-> data,
                ret |-> validateDashboardData(data)]
    /\ UNCHANGED <<movies, genres, tzOffset, today, heap, series, calls>>
    /\ UNCHANGED cacheVars

NextValidate == \E data \in SampleDashboardData : Validate(data)

SpecValidate == InitValidate /\ [][NextValidate]_vars

Elements(s) == {s[i] : i \in 1..Len(s)}

\* The month of a record as a number of months, read from its "YYYY-MM" key
MonthNumber(record) ==
    12 * ParseInt(SplitFirst(record.month)) + ParseInt(SplitSecond(record.month))

OutOfChronologicalOrder(data) ==
    /\ "monthly_data" \in DOMAIN data
    /\ \E i \in 2..Len(data.monthly_data) :
          MonthNumber(data.monthly_data[i]) < MonthNumber(data.monthly_data[i - 1])

PercentageSumOff(data) ==
    /\ ~MissingOrEmpty(data, "genre_distribution")
    /\ LET total == totalPercentage(data.genre_distribution)
       IN  total < 9500 \/ total > 10500

\* C22: validateDashboardData returns a result (it does not throw); isValid is
\* true exactly when errors is empty; an error is recorded exactly for empty
\* monthly_data and for date_range.start > date_range.end; a month out of
\* chronological order, empty top_movies, empty genre_distribution and a
\* percentage sum outside 100 +/- 5 each produce a warning and no error.
C22_ValidationIsAdvisory ==
    last.op = "validateDashboardData" =>
        LET data == last.arg
            result == last.ret
            errors == Elements(result.errors)
            warnings == Elements(result.warnings)
            noMonths == MissingOrEmpty(data, "monthly_data")
            inverted == StrLess(data.date_range.end, data.date_range.start)
        IN  /\ DOMAIN last = {"op", "arg", "ret"}
            /\ DOMAIN result = {"isValid", "errors", "warnings"}
            /\ result.isValid <=> result.errors = <<>>
            /\ result.isValid <=> ~(noMonths \/ inverted)
            /\ Len(result.errors) = Cardinality(errors)
            /\ errors =
                  (IF noMonths THEN {"No hay datos mensuales disponibles"} ELSE {})
                  \cup (IF inverted
                        THEN {"El rango de fechas es inválido (inicio > fin)"}
                        ELSE {})
            /\ OutOfChronologicalOrder(data) <=>
                  "Los datos mensuales no están ordenados cronológicamente"
                      \in warnings
            /\ MissingOrEmpty(data, "top_movies") <=>
                  "No hay top películas disponibles" \in warnings
            /\ MissingOrEmpty(data, "genre_distribution") <=>
                  "No hay distribución de géneros disponible" \in warnings
            /\ PercentageSumOff(data) <=>
                  \E w \in warnings :
                      SubSeq(w, 1, 18) = "Los porcentajes de"
            /\ Len(result.warnings) = Cardinality(warnings)

\* C22 witness: an aggregate with months out of order, no top movies and
\* percentages summing to 200 is valid, with three warnings
C22_Witness ==
    /\ last.op = "validateDashboardData"
    /\ OutOfChronologicalOrder(last.arg)
    /\ MissingOrEmpty(last.arg, "top_movies")
    /\ PercentageSumOff(last.arg)
    /\ last.ret.isValid
    /\ Len(last.ret.warnings) = 3


\* The valid movies that aggregateByMonth put into the month of a record
MoviesOfRecord(record) ==
    MoviesInMonth(SelectSeq(movies, HasValidDate), record.month, tzOffset)

\* C23 as claimed: the record of a month with exactly one valid movie has
\* avg_popularity and avg_vote_average equal to that movie's popularity and
\* vote average, whatever values the movie carries.
C23_SingleMovieAveragesAreItsValues ==
    last.op = "aggregateByMonth" =>
        LET out == Deref(heap, last.ret)
        IN  \A i \in 1..Len(out) :
                Len(MoviesOfRecord(out[i])) = 1 =>
                    LET movie == MoviesOfRecord(out[i])[1]
                    IN  /\ 10 * out[i].avg_popularity = movie.popularity
                        /\ 10 * out[i].avg_vote_average = movie.vote_average

\* C23: the record of a month with exactly one valid movie has
\* avg_popularity and avg_vote_average equal to that movie's popularity and
\* vote average rounded to 2 decimals, both numbers (never NaN); they are the
\* movie's own values when these have at most 2 decimals.
C23_SingleMovieAveragesAreItsValuesRounded ==
    last.op = "aggregateByMonth" =>
        LET out == Deref(heap, last.ret)
        IN  \A i \in 1..Len(out) :
                Len(MoviesOfRecord(out[i])) = 1 =>
                    LET movie == MoviesOfRecord(out[i])[1]
                    IN  /\ out[i].movies_count = 1
                        /\ out[i].avg_popularity \in Nat
                        /\ out[i].avg_vote_average \in Nat
                        /\ IsRounded2(out[i].avg_popularity, movie.popularity, 1000)
                        /\ IsRounded2(out[i].avg_vote_average,
                                      movie.vote_average, 1000)
                        /\ movie.popularity % 10 = 0 =>
                              10 * out[i].avg_popularity = movie.popularity
                        /\ movie.vote_average % 10 = 0 =>
                              10 * out[i].avg_vote_average = movie.vote_average

\* C23 witness: a month holds one movie whose popularity and vote average
\* have a third decimal, next to a month of one movie with round values
C23_Witness ==
    /\ last.op = "aggregateByMonth"
    /\ LET out == Deref(heap, last.ret)
       IN  /\ \E i \in 1..Len(out) :
                 /\ Len(MoviesOfRecord(out[i])) = 1
                 /\ MoviesOfRecord(out[i])[1].popularity % 10 # 0
                 /\ MoviesOfRecord(out[i])[1].vote_average % 10 # 0
           /\ \E i \in 1..Len(out) :
                 /\ Len(MoviesOfRecord(out[i])) = 1
                 /\ MoviesOfRecord(out[i])[1].popularity % 10 = 0
                 /\ MoviesOfRecord(out[i])[1].popularity > 0


-----------------------------------------------------------------------------
(* identifyTrends (rolling-window.ts), called on smoothed series *)

Abs(x) == IF x < 0 THEN 0 - x ELSE x

\* Math.abs((last - first) / first * 100) < 5, for first >= 0: with first = 0
\* the quotient is NaN (last = 0) or Infinity, and both comparisons are false
PercentChangeBelow5(first, lastValue) ==
    /\ first # 0
    /\ 100 * Abs(lastValue - first) < 5 * first

analyzeTrendDirection(values) ==
    IF Len(values) < 2 THEN "stable"
    ELSE LET first == values[1]
             lastValue == values[Len(values)]
         IN  IF PercentChangeBelow5(first, lastValue) THEN "stable"
             ELSE IF lastValue > first THEN "ascending" ELSE "descending"

\* floor(factor * (qr.q + qr.r / den)) as quotient and remainder
TimesFloor(qr, factor, den) ==
    [q |-> qr.q * factor + (qr.r * factor) \div den, r |-> (qr.r * factor) % den]

\* floor(40000 * num / den)
Floor40000(num, den) ==
    LET start == [q |-> num \div den, r |-> num % den]
        ten4 == TimesFloor(TimesFloor(TimesFloor(TimesFloor(start, 10, den),
                                                 10, den), 10, den), 10, den)
    IN  TimesFloor(ten4, 4, den).q

\* Math.round(Math.abs(numerator / Math.sqrt(denomTime * denomPop)) * 100),
\* the deviations taken n times to stay in the integers: the hundredths k with
\* 2k - 1 <= 200 * |r| < 2k + 1
calculateTrendStrength(data) ==
    IF Len(data) < 3 THEN 0
    ELSE LET n == Len(data)
             popularityValues == [i \in 1..n |-> data[i].popularity_moving_avg]
             sumTime == SumSeq([i \in 1..n |-> i - 1])
             sumPop == SumSeq(popularityValues)
             timeDeviation(i) == n * (i - 1) - sumTime
             popDeviation(i) == n * popularityValues[i] - sumPop
             numerator == SumSeq([i \in 1..n |-> timeDeviation(i) * popDeviation(i)])
             denomTime == SumSeq([i \in 1..n |-> timeDeviation(i) * timeDeviation(i)])
             denomPop == SumSeq([i \in 1..n |-> popDeviation(i) * popDeviation(i)])
         IN  IF denomTime * denomPop = 0 THEN 0
             ELSE Const(Floor40000(numerator * numerator, denomTime * denomPop),
                        LAMBDA square :
                            CHOOSE k \in 0..100 :
                                /\ k = 0 \/ (2 * k - 1) * (2 * k - 1) <= square
                                /\ square < (2 * k + 1) * (2 * k + 1))

\* monthlyData.filter(d => d.popularity_moving_avg !== undefined &&
\*                         d.vote_moving_avg !== undefined)
ValidTrendData(h, monthlyData) ==
    SelectSeq(Deref(h, monthlyData),
              LAMBDA d : Has(d, "popularity_moving_avg") /\ Has(d, "vote_moving_avg"))

identifyTrends(h, monthlyData, minPeriods) ==
    Const(ValidTrendData(h, monthlyData), LAMBDA validData :
        IF Len(validData) < minPeriods
        THEN [popularityTrend |-> "stable", voteTrend |-> "stable",
              trendStrength |-> 0]
        ELSE [popularityTrend |->
                  analyzeTrendDirection(
                      [i \in 1..Len(validData) |-> validData[i].popularity_moving_avg]),
              voteTrend |->
                  analyzeTrendDirection(
                      [i \in 1..Len(validData) |-> validData[i].vote_moving_avg]),
              trendStrength |-> calculateTrendStrength(validData)])

\* The smoothed records of the series: their moving averages, in hundredths
TrendMonths == <<"2023-01", "2023-02", "2023-03", "2023-04", "2023-05">>

TrendPopularities == {0, 100, 104, 105}

TrendVotes == {0, 700}

TrendRecord(i, fields) ==
    [f \in DOMAIN SampleMonth(TrendMonths[i]) \cup DOMAIN fields |->
        IF f \in DOMAIN fields THEN fields[f] ELSE SampleMonth(TrendMonths[i])[f]]

\* What a record may carry: both moving averages, one of them, or none
TrendFields ==
    { [popularity_moving_avg |-> p, vote_moving_avg |-> v] :
          p \in TrendPopularities, v \in TrendVotes }
    \cup { [popularity_moving_avg |-> 100], [year |-> 2023] }

TrendHeaps ==
    UNION { { [i \in 1..n |-> TrendRecord(i, fields[i])] :
                fields \in [1..n -> TrendFields] } : n \in 0..MaxTrendLen }

MinPeriods == {2, 3}

InitTrends ==
    /\ movies = <<>>
    /\ genres = GenreSet
    /\ tzOffset = 0
    /\ today = Days[1]
    /\ heap \in TrendHeaps
    /\ series = [i \in 1..Len(heap) |-> i]
    /\ last = NoCall
    /\ calls = 0
    /\ CacheUnused

\* const trends = identifyTrends(monthlyData, minPeriods)
IdentifyTrends(minPeriods) ==
    /\ last' = [op |-> "identifyTrends", param |-> minPeriods, arg |-> series,
                pre |-> heap, ret |-> identifyTrends(heap, series, minPeriods)]
    /\ UNCHANGED <<movies, genres, tzOffset, today, heap, series, calls>>
    /\ UNCHANGED cacheVars

NextTrends == \E minPeriods \in MinPeriods : IdentifyTrends(minPeriods)

SpecTrends == InitTrends /\ [][NextTrends]_vars

\* The direction the first and the last value stand for: stable below a 5%
\* difference, equal values included, else the sign of the difference
DirectionOf(first, lastValue) ==
    IF first = lastValue THEN "stable"
    ELSE IF first # 0 /\ 100 * Abs(lastValue - first) < 5 * first THEN "stable"
    ELSE IF lastValue > first THEN "ascending" ELSE "descending"

\* C24: identifyTrends, given at least minPeriods records that carry both
\* moving averages, classifies each metric from the first and the last value
\* among them: stable when they differ by less than 5% (equal values
\* included), ascending when by 5% or more and last > first, descending when
\* by 5% or more and last < first.
C24_TrendFromFirstAndLast ==
    last.op = "identifyTrends" =>
        LET valid == ValidTrendData(last.pre, last.arg)
            n == Len(valid)
        IN  n >= last.param =>
                /\ last.ret.popularityTrend =
                      DirectionOf(valid[1].popularity_moving_avg,
                                  valid[n].popularity_moving_avg)
                /\ last.ret.voteTrend =
                      DirectionOf(valid[1].vote_moving_avg, valid[n].vote_moving_avg)

\* The same, for series whose first smoothed values are not zero
C24_HoldsOffZero ==
    (/\ last.op = "identifyTrends"
     /\ \E d \in {ValidTrendData(last.pre, last.arg)} :
            d # <<>> /\ d[1].popularity_moving_avg > 0 /\ d[1].vote_moving_avg > 0)
        => C24_TrendFromFirstAndLast


\* C25: getTopMovies with the vote_count criterion returns the sequence that
\* getTopMovies with the popularity criterion returns for the same movies,
\* genres and N: its records are in non-increasing order of their popularity,
\* whatever the vote counts of the movies they were built from.
C25_VoteCountCriterionIsPopularity ==
    (last.op = "getTopMovies" /\ last.criteria = "vote_count") =>
        /\ last.ret = getTopMovies(movies, genres, "popularity", last.topN)
        /\ \A i \in 1..(Len(last.ret) - 1) :
              last.ret[i].popularity >= last.ret[i + 1].popularity

\* C25 witness: the vote_count criterion returned a movie with fewer votes
\* ahead of a movie with more votes
C25_Witness ==
    /\ last.op = "getTopMovies"
    /\ last.criteria = "vote_count"
    /\ \E i \in 1..(Len(last.ret) - 1) :
          /\ SourceMovie(movies, last.ret[i]).vote_count
                < SourceMovie(movies, last.ret[i + 1]).vote_count
          /\ last.ret[i].popularity > last.ret[i + 1].popularity


C27_StagesRunOnTheReturnedSeries ==
    (last.op = "transformDashboardData" /\ "ret" \in DOMAIN last) =>
        LET out == last.ret.monthly_data
            k == Len(out)
        IN  /\ k >= 1 => DOMAIN out[1] = BaseFields
            /\ k >= 2 => DOMAIN out[2] = BaseFields \cup ChangeFields
            /\ \A i \in 2..k :
                 /\ out[i].popularity_change_percent =
                        calculatePercentChange(out[i - 1].avg_popularity,
                                               out[i].avg_popularity)
                 /\ out[i].vote_change_percent =
                        calculatePercentChange(out[i - 1].avg_vote_average,
                                               out[i].avg_vote_average)
            /\ \A i \in 3..k :
                 /\ DOMAIN out[i] = BaseFields \cup ChangeFields \cup MovingAvgFields
                 /\ IsRounded2(out[i].popularity_moving_avg,
                        SumField(SubSeq(out, i - 2, i), "avg_popularity"), 300)
                 /\ IsRounded2(out[i].vote_moving_avg,
                        SumField(SubSeq(out, i - 2, i), "avg_vote_average"), 300)

\* C27 witness: the date range removed the first aggregated month, and of the
\* two months returned the second carries changes against the first
C27_Witness ==
    /\ last.op = "transformDashboardData"
    /\ "ret" \in DOMAIN last
    /\ LET produced == aggregateByMonth(movies, genres, tzOffset)
           out == last.ret.monthly_data
       IN  /\ Len(produced) = 3
           /\ Len(out) = 2
           /\ out[1].month = produced[2].month
           /\ out[2].popularity_change_percent # Finite(0)

\* A run without date range returned three months, the third one smoothed
C27_ThreeMonthsReturned ==
    /\ last.op = "transformDashboardData"
    /\ "ret" \in DOMAIN last
    /\ Len(last.ret.monthly_data) = 3
    /\ last.ret.monthly_data[3].popularity_moving_avg > 0


\* The release dates the movies carry
ReleaseDates(ms) ==
    {ms[j].release_date : j \in {i \in 1..Len(ms) : ms[i].release_date # ""}}

\* Exactly one of the two dates of the filter is given
OneSided(filters) == (filters.startDate # "") # (filters.endDate # "")

\* C28: when exactly one of filters.startDate and filters.endDate is given,
\* the monthly_data of transformDashboardData holds every aggregated month,
\* those beyond the given bound included, and date_range reports the given
\* bound on its side and, on the other side, the earliest or the latest of
\* the release dates the movies carry (in the order of ISO date strings).
C28_OneSidedRangeDoesNotFilter ==
    (last.op = "transformDashboardData" /\ OneSided(last.param)) =>
        LET produced == aggregateByMonth(movies, genres, tzOffset)
            out == last.ret.monthly_data
            range == last.ret.date_range
            dated == ReleaseDates(movies)
        IN  /\ Len(out) = Len(produced)
            /\ \A i \in 1..Len(out) :
                 \A f \in BaseFields : out[i][f] = produced[i][f]
            /\ last.param.startDate # "" =>
                 /\ range.start = last.param.startDate
                 /\ dated # {} =>
                       /\ range.end \in dated
                       /\ \A d \in dated : StrLeq(d, range.end)
            /\ last.param.endDate # "" =>
                 /\ range.end = last.param.endDate
                 /\ dated # {} =>
                       /\ range.start \in dated
                       /\ \A d \in dated : StrLeq(range.start, d)

\* C28 witness: only a start date was given, and monthly_data begins with a
\* month before it while date_range starts at the given date and ends at a
\* movie's release date
C28_Witness ==
    /\ last.op = "transformDashboardData"
    /\ last.param.startDate # "" /\ last.param.endDate = ""
    /\ Len(last.ret.monthly_data) >= 2
    /\ StrLess(last.ret.monthly_data[1].month, SubSeq(last.param.startDate, 1, 7))
    /\ last.ret.date_range.start = last.param.startDate
    /\ last.ret.date_range.end \in ReleaseDates(movies)


-----------------------------------------------------------------------------
(* MemoryCache (utils/logger.ts): the singleton `cache`, its timers and    *)
(* the clock.  A Map is a function on its keys.  The handle returned by    *)
(* setTimeout is the record of the key it will delete and the time it is   *)
(* due; `pending` holds the handles that are scheduled and neither fired   *)
(* nor cleared.                                                            *)

MapDelete(map, key) == [k \in DOMAIN map \ {key} |-> map[k]]

MapSet(map, key, value) ==
    [k \in DOMAIN map \cup {key} |-> IF k = key THEN value ELSE map[k]]

\* The cache object: its two Maps and the timers it has scheduled
Memory == [cache |-> cache, timers |-> timers, pending |-> pending]

\* Date.now() > entry.timestamp + entry.ttl * 1000
Expired(entry, t) == t > entry.timestamp + entry.ttl * 1000

\* delete(key): the state after it and the boolean it returns
CacheDelete(m, key) ==
    [cache |-> MapDelete(m.cache, key),
     timers |-> MapDelete(m.timers, key),
     pending |-> IF key \in DOMAIN m.timers
                 THEN m.pending \ {m.timers[key]} ELSE m.pending,
     ret |-> key \in DOMAIN m.cache]

\* get(key) at time t: null is {}, a value v is {v}
CacheGet(m, key, t) ==
    IF key \notin DOMAIN m.cache
    THEN [cache |-> m.cache, timers |-> m.timers, pending |-> m.pending, ret |-> {}]
    ELSE IF Expired(m.cache[key], t)
    THEN [CacheDelete(m, key) EXCEPT !.ret = {}]
    ELSE [cache |-> m.cache, timers |-> m.timers, pending |-> m.pending,
          ret |-> {m.cache[key].data}]

\* has(key) at time t
CacheHas(m, key, t) ==
    IF key \notin DOMAIN m.cache
    THEN [cache |-> m.cache, timers |-> m.timers, pending |-> m.pending,
          ret |-> FALSE]
    ELSE IF Expired(m.cache[key], t)
    THEN [CacheDelete(m, key) EXCEPT !.ret = FALSE]
    ELSE [cache |-> m.cache, timers |-> m.timers, pending |-> m.pending,
          ret |-> TRUE]

\* The entry set(key, data, config) stores at time t
CacheEntry(key, data, config, t) ==
    [f \in {"data", "timestamp", "ttl", "key"} \cup (DOMAIN config \cap {"tags"}) |->
        IF f = "data" THEN data
        ELSE IF f = "timestamp" THEN t
        ELSE IF f = "key" THEN key
        ELSE config[f]]

\* setTimeout(() => this.delete(key), config.ttl * 1000) at time t
Timeout(key, config, t) == [key |-> key, due |-> t + config.ttl * 1000]

\* A faulty variant of set: the timer of the entry it replaces stays scheduled
CacheSetKeepingTimer(m, key, data, config, t) ==
    [cache |-> MapSet(m.cache, key, CacheEntry(key, data, config, t)),
     timers |-> MapSet(m.timers, key, Timeout(key, config, t)),
     pending |-> m.pending \cup {Timeout(key, config, t)}]

\* set(key, data, config) at time t
CacheSet(m, key, data, config, t) ==
    LET cleared == IF key \in DOMAIN m.timers
                   THEN m.pending \ {m.timers[key]} ELSE m.pending
    IN  [cache |-> MapSet(m.cache, key, CacheEntry(key, data, config, t)),
         timers |-> MapSet(m.timers, key, Timeout(key, config, t)),
         pending |-> cleared \cup {Timeout(key, config, t)}]

\* The keys whose entry carries one of the tags
TaggedKeys(m, tags) ==
    {key \in DOMAIN m.cache :
        /\ "tags" \in DOMAIN m.cache[key]
        /\ \E i \in 1..Len(m.cache[key].tags) :
              \E j \in 1..Len(tags) : m.cache[key].tags[i] = tags[j]}

\* this.delete(key) for every key of a set
CacheDeleteAll(m, keys) ==
    [cache |-> [k \in DOMAIN m.cache \ keys |-> m.cache[k]],
     timers |-> [k \in DOMAIN m.timers \ keys |-> m.timers[k]],
     pending |-> m.pending \ {m.timers[k] : k \in keys \cap DOMAIN m.timers},
     ret |-> Cardinality(keys)]

\* clearByTags(tags)
CacheClearByTags(m, tags) == CacheDeleteAll(m, TaggedKeys(m, tags))

\* cleanup() at time t
CacheCleanup(m, t) ==
    CacheDeleteAll(m, {key \in DOMAIN m.cache : Expired(m.cache[key], t)})

\* clear()
CacheClear(m) ==
    [cache |-> EmptyMap,
     timers |-> EmptyMap,
     pending |-> m.pending \ {m.timers[k] : k \in DOMAIN m.timers}]

\* The keys, values and configurations the callers use; ttl in seconds
CacheKeys == {"tmdb:genres", "tmdb:movies:discover"}

CacheData == {"v1", "v2"}

CacheConfigs ==
    { [ttl |-> 1, key |-> "tmdb:genres", tags |-> <<"tmdb", "genres">>],
      [ttl |-> 2, key |-> "tmdb:movies:discover"] }

TagLists == { <<"genres">>, <<"movies", "details">> }

InitCache ==
    /\ movies = <<>>
    /\ genres = GenreSet
    /\ tzOffset = 0
    /\ today = Days[1]
    /\ heap = <<>>
    /\ series = <<>>
    /\ last = NoCall
    /\ calls = 0
    /\ CacheUnused

\* The cache after an operation
Becomes(m) ==
    /\ cache' = m.cache
    /\ timers' = m.timers
    /\ pending' = m.pending

\* cache.set(key, data, config)
Set(key, data, config) ==
    /\ Becomes(CacheSet(Memory, key, data, config, clock))
    /\ written' = MapSet(written, key,
                         [data |-> data, timestamp |-> clock, ttl |-> config.ttl])
    /\ last' = [op |-> "set", key |-> key, at |-> clock]
    /\ UNCHANGED <<clock, callers, loads, calls>>
    /\ UNCHANGED pipelineVars

\* cache.get(key)
Get(key) ==
    /\ \E m \in {CacheGet(Memory, key, clock)} :
           /\ Becomes(m)
           /\ last' = [op |-> "get", key |-> key, at |-> clock, ret |-> m.ret]
    /\ UNCHANGED <<clock, written, callers, loads, calls>>
    /\ UNCHANGED pipelineVars

\* cache.has(key)
HasKey(key) ==
    /\ \E m \in {CacheHas(Memory, key, clock)} :
           /\ Becomes(m)
           /\ last' = [op |-> "has", key |-> key, at |-> clock, ret |-> m.ret]
    /\ UNCHANGED <<clock, written, callers, loads, calls>>
    /\ UNCHANGED pipelineVars

\* cache.delete(key)
Delete(key) ==
    /\ \E m \in {CacheDelete(Memory, key)} :
           /\ Becomes(m)
           /\ last' = [op |-> "delete", key |-> key, at |-> clock, ret |-> m.ret]
    /\ written' = MapDelete(written, key)
    /\ UNCHANGED <<clock, callers, loads, calls>>
    /\ UNCHANGED pipelineVars

\* cache.clearByTags(tags)
ClearByTags(tags) ==
    /\ \E m \in {CacheClearByTags(Memory, tags)} :
           /\ Becomes(m)
           /\ last' = [op |-> "clearByTags", tags |-> tags, at |-> clock,
                       ret |-> m.ret]
    /\ written' = [k \in DOMAIN written \ TaggedKeys(Memory, tags) |-> written[k]]
    /\ UNCHANGED <<clock, callers, loads, calls>>
    /\ UNCHANGED pipelineVars

\* cache.cleanup(), by a caller or by the 5-minute interval
Cleanup ==
    /\ \E m \in {CacheCleanup(Memory, clock)} :
           /\ Becomes(m)
           /\ last' = [op |-> "cleanup", at |-> clock, ret |-> m.ret]
    /\ UNCHANGED <<clock, written, callers, loads, calls>>
    /\ UNCHANGED pipelineVars

\* cache.clear()
Clear ==
    /\ Becomes(CacheClear(Memory))
    /\ written' = EmptyMap
    /\ last' = [op |-> "clear", at |-> clock]
    /\ UNCHANGED <<clock, callers, loads, calls>>
    /\ UNCHANGED pipelineVars

\* A scheduled timer that is due runs its callback, this.delete(key)
TimerFires(timer) ==
    /\ timer \in pending
    /\ clock >= timer.due
    /\ \E m \in {CacheDelete([cache |-> cache, timers |-> timers,
                              pending |-> pending \ {timer}], timer.key)} :
           Becomes(m)
    /\ UNCHANGED <<clock, written, callers, loads, calls, last>>
    /\ UNCHANGED pipelineVars

\* A second passes
ClockTick ==
    /\ clock < MaxSeconds * 1000
    /\ clock' = clock + 1000
    /\ UNCHANGED <<cache, timers, pending, written, callers, loads, calls, last>>
    /\ UNCHANGED pipelineVars

NextCache ==
    \/ \E key \in CacheKeys, data \in CacheData, config \in CacheConfigs :
           Set(key, data, config)
    \/ \E key \in CacheKeys : Get(key)
    \/ \E key \in CacheKeys : HasKey(key)
    \/ \E key \in CacheKeys : Delete(key)
    \/ \E tags \in TagLists : ClearByTags(tags)
    \/ Cleanup
    \/ Clear
    \/ \E timer \in pending : TimerFires(timer)
    \/ ClockTick

SpecCache == InitCache /\ [][NextCache]_vars

\* C29: a value returned by get(key) is the data of the last set on that key
\* that no delete or clear of the key has followed, read no later than that
\* set's timestamp plus its TTL; and every scheduled timer is the one of the
\* entry now stored under its key, so that an entry set again is never
\* removed by the timer of the set it replaced.
C29_GetReturnsTheLiveSet ==
    /\ (last.op = "get" /\ last.ret # {}) =>
          /\ last.key \in DOMAIN written
          /\ last.ret = {written[last.key].data}
          /\ last.at <= written[last.key].timestamp
                            + written[last.key].ttl * 1000
    /\ \A timer \in pending :
          /\ timer.key \in DOMAIN cache
          /\ timer.due = cache[timer.key].timestamp + cache[timer.key].ttl * 1000

\* C29 witness: get returns the value of a second set, made before the first
\* one expired, at a time when the first one would have expired
C29_Witness ==
    /\ last.op = "get"
    /\ last.ret = {"v2"}
    /\ written[last.key].timestamp > 0
    /\ written[last.key].ttl = 1
    /\ last.at > 1000


-----------------------------------------------------------------------------
(* cacheWithLoader (utils/logger.ts), called by concurrent requests for    *)
(* the genres (GET /api/genres): each call runs up to `await loader()`,    *)
(* and resumes when the loader's promise settles.                          *)

Callers == 1..MaxCallers

\* CACHE_CONFIGS.GENRES, its ttl scaled down to one second
GenresConfig == [ttl |-> 1, key |-> "tmdb:genres", tags |-> <<"tmdb", "genres">>]

InitLoader ==
    /\ movies = <<>>
    /\ genres = GenreSet
    /\ tzOffset = 0
    /\ today = Days[1]
    /\ heap = <<>>
    /\ series = <<>>
    /\ last = NoCall
    /\ calls = 0
    /\ cache = EmptyMap
    /\ timers = EmptyMap
    /\ pending = {}
    /\ clock = 0
    /\ written = EmptyMap
    /\ callers = [c \in Callers |-> [pc |-> "idle"]]
    /\ loads = 0

\* A request calls cacheWithLoader(key, config, loader): cache.get(key), and
\* on a miss loader() is invoked and the call waits for its promise
Begin(c) ==
    /\ callers[c].pc # "loading"
    /\ \E m \in {CacheGet(Memory, GenresConfig.key, clock)} :
           /\ Becomes(m)
           /\ IF m.ret # {}
              THEN /\ callers' = [callers EXCEPT ![c] =
                                      [pc |-> "returned", data |-> m.ret]]
                   /\ loads' = loads
              ELSE /\ loads < MaxLoads
                   /\ callers' = [callers EXCEPT ![c] = [pc |-> "loading"]]
                   /\ loads' = loads + 1
    /\ UNCHANGED <<clock, written, calls, last>>
    /\ UNCHANGED pipelineVars

\* The loader's promise resolves: cache.set(key, data, config); return data
LoaderResolves(c, data) ==
    /\ callers[c].pc = "loading"
    /\ Becomes(CacheSet(Memory, GenresConfig.key, data, GenresConfig, clock))
    /\ written' = MapSet(written, GenresConfig.key,
                         [data |-> data, timestamp |-> clock,
                          ttl |-> GenresConfig.ttl])
    /\ callers' = [callers EXCEPT ![c] = [pc |-> "returned", data |-> {data}]]
    /\ UNCHANGED <<clock, loads, calls, last>>
    /\ UNCHANGED pipelineVars

\* The loader's promise rejects (TMDB API error): the call throws
LoaderRejects(c) ==
    /\ callers[c].pc = "loading"
    /\ callers' = [callers EXCEPT ![c] = [pc |-> "failed"]]
    /\ UNCHANGED <<cache, timers, pending, clock, written, loads, calls, last>>
    /\ UNCHANGED pipelineVars

NextLoader ==
    \/ \E c \in Callers : Begin(c)
    \/ \E c \in Callers, data \in CacheData : LoaderResolves(c, data)
    \/ \E c \in Callers : LoaderRejects(c)
    \/ \E timer \in pending : TimerFires(timer)
    \/ ClockTick

SpecLoader == InitLoader /\ [][NextLoader]_vars

\* C30: of the concurrent calls of cacheWithLoader on one key, at most one
\* is waiting for the loader at any time: a call that arrives while another
\* call's load is in flight does not invoke the loader again; and before any
\* stored entry can have expired the loader has been invoked at most once
\* unless a load failed.
C30_OneLoadInFlight ==
    /\ \A c1, c2 \in Callers :
          (callers[c1].pc = "loading" /\ callers[c2].pc = "loading") => c1 = c2
    /\ (clock = 0 /\ \A c \in Callers : callers[c].pc # "failed") => loads <= 1

====
